---- MODULE Spec2Model ----
(***************************************************************************)
(* A model of claude-session-logger: the transcript converter              *)
(* (py/log-converter.py: parse_jsonl, should_skip,                         *)
(* group_assistant_records, render_markdown, render_header and main), the  *)
(* Stop and SubagentStop hooks that run it (stop-log.py,                   *)
(* subagent-stop-log.py) and the installer (install.py).                   *)
(*                                                                         *)
(* JSON values are tagged records (ty = "null", "bool", "int", "str",      *)
(* "list", "dict").  A Python string is a sequence of characters; a        *)
(* character is a TLA+ string that stands either for one real character    *)
(* ("-", "+", "<", "\n", " ", ...) or for a fixed run of ordinary          *)
(* characters that no rule of the converter looks into ("Read",            *)
(* "<details>", "use_error", ...).  "[bullet]", "[hook]" and "[emdash]"    *)
(* stand for the characters U+25CF, U+23BF and U+2014, and "'" inside a    *)
(* literal of the converter stands for the backquote.                      *)
(***************************************************************************)
EXTENDS Integers, Sequences, FiniteSets, TLC

VARIABLES
    transcript,        \* the transcript file: [exists, lines]
    args,              \* the command line: session_id, date, start_time, agent_type, agent_id
    outFile,           \* the output path: [exists, text]
    outFile0,          \* the output path as it was before the run
    outDir,            \* whether the directory of the output path exists
    pc,                \* where main() is
    exitCode,          \* the process's exit status once it has ended, -1 before
    records,           \* parse_jsonl: records parsed so far
    li,                \* parse_jsonl: number of lines consumed
    addrs,             \* the id() of the records whose id() the grouper has taken
    gi,                \* group_assistant_records: number of records consumed
    items,             \* group_assistant_records: items
    assistant_groups,  \* group_assistant_records: key -> [blocks, timestamp]
    assistant_order,   \* group_assistant_records: keys in order of first appearance
    tool_results_map,  \* render_markdown: tool_use_id -> <<content, is_error>>
    ri,                \* render_markdown: number of items rendered in the second pass
    lines,             \* render_markdown: lines
    calls,             \* history: for every tool_use block rendered, where its output lies in lines
    runs,              \* history: the number of times main() has been started
    \* the hooks, one process per hook
    hook_stdin,        \* what the hook reads from stdin
    hpc,               \* where the hook's main() is
    hexit,             \* the hook's exit status once it has ended, -1 before
    tfile,             \* the transcript file the hook is pointed at: [exists, size]
    prev_size,         \* the size seen by the previous poll, -1 before the first
    polls,             \* history: the sizes the polls have seen, in order
    first_ts,          \* the first truthy timestamp in the transcript, Null if none
    stamp,             \* date_str, time_part and local_ts once computed
    logsDir,           \* whether .claude/logs exists
    errLog,            \* .claude/logs/.converter-errors.log: [exists, text]
    errLog0,           \* the error log as it was before the hooks ran
    err_f,             \* the hook's handle on the error log: closed, open, unlinked
    wrote,             \* history: what the hook's converter wrote to stderr: none, nothing, errors
    \* the installer
    ipc,               \* where the installer's main() is
    iexit,             \* the installer's exit status once it has ended, -1 before
    gitDir,            \* whether .git is a directory
    installed,         \* whether .claude/hooks/stop-log.py exists
    answers,           \* the lines on the installer's stdin that are still unread
    tz_value,          \* the time zone written into the copied scripts
    settings,          \* .claude/settings.json: [exists, content], the content a line kind
    settings0          \* the settings file as it was before the run

converterVars ==
    <<transcript, args, outFile, outFile0, outDir, pc, exitCode, records, li, addrs, gi,
      items, assistant_groups, assistant_order, tool_results_map, ri, lines, calls, runs>>

hookVars ==
    <<hook_stdin, hpc, hexit, tfile, prev_size, polls, first_ts, stamp, logsDir, errLog,
      errLog0, err_f, wrote>>

installVars == <<ipc, iexit, gitDir, installed, answers, tz_value, settings, settings0>>

vars == <<converterVars, hookVars, installVars>>

\* The longest transcript, in lines.
MaxLines == 3

---------------------------------------------------------------------------
(* JSON values and the Python operations the converter applies to them.    *)

Null == [ty |-> "null"]
Bool(b) == [ty |-> "bool", b |-> b]
Num(n) == [ty |-> "int", n |-> n]
Str(s) == [ty |-> "str", s |-> s]
List(xs) == [ty |-> "list", xs |-> xs]
Dict(d) == [ty |-> "dict", d |-> d]

\* The string of one run of ordinary characters, and the empty string.
T(w) == Str(<<w>>)
E == Str(<<>>)

IsDict(v) == v.ty = "dict"
IsStr(v) == v.ty = "str"
IsList(v) == v.ty = "list"

\* dict.get(key, default)
Get(v, key, default) == IF key \in DOMAIN v.d THEN v.d[key] ELSE default

\* bool(v)
Truthy(v) ==
    CASE v.ty = "null" -> FALSE
      [] v.ty = "bool" -> v.b
      [] v.ty = "int" -> v.n # 0
      [] v.ty = "str" -> v.s # <<>>
      [] v.ty = "list" -> v.xs # <<>>
      [] v.ty = "dict" -> DOMAIN v.d # {}

\* hash(v) raises TypeError for lists and dicts.
Unhashable(v) == v.ty \in {"list", "dict"}

\* str(v) / f"{v}": a string is itself, a number its digits, anything else its
\* repr, which is one line.
PyStr(v) ==
    CASE v.ty = "str" -> v.s
      [] v.ty = "int" -> <<ToString(v.n)>>
      [] v.ty = "null" -> <<"None">>
      [] v.ty = "bool" -> IF v.b THEN <<"True">> ELSE <<"False">>
      [] v.ty = "list" -> <<"[...]">>
      [] v.ty = "dict" -> <<"{...}">>

WhiteSpace == {" ", "\n", "\t"}

RECURSIVE LStrip(_)
LStrip(s) == IF s # <<>> /\ Head(s) \in WhiteSpace THEN LStrip(Tail(s)) ELSE s

RECURSIVE RStrip(_)
RStrip(s) ==
    IF s # <<>> /\ s[Len(s)] \in WhiteSpace THEN RStrip(SubSeq(s, 1, Len(s) - 1)) ELSE s

\* str.strip()
Strip(s) == RStrip(LStrip(s))

\* The index of the first "\n" of s, 0 when there is none.
FindNL(s, i) ==
    LET at == {j \in i..Len(s) : s[j] = "\n"}
    IN  IF at = {} THEN 0 ELSE CHOOSE j \in at : \A k \in at : j <= k

\* str.split("\n")
RECURSIVE SplitNL(_)
SplitNL(s) ==
    LET i == FindNL(s, 1)
    IN  IF i = 0 THEN <<s>>
        ELSE <<SubSeq(s, 1, i - 1)>> \o SplitNL(SubSeq(s, i + 1, Len(s)))

\* str.splitlines(): as split("\n"), without the empty last line
SplitLines(s) ==
    LET p == SplitNL(s)
    IN  IF p[Len(p)] = <<>> THEN SubSeq(p, 1, Len(p) - 1) ELSE p

\* "\n".join(parts)
RECURSIVE JoinNL(_)
JoinNL(parts) ==
    IF parts = <<>> THEN <<>>
    ELSE IF Len(parts) = 1 THEN parts[1]
    ELSE parts[1] \o <<"\n">> \o JoinNL(Tail(parts))

\* str.startswith(prefix)
StartsWith(s, prefix) == Len(s) >= Len(prefix) /\ SubSeq(s, 1, Len(prefix)) = prefix

\* The concatenation of F(x) for the elements x of a sequence, in order.
FlatMap(s, F(_)) ==
    LET acc[i \in 0..Len(s)] == IF i = 0 THEN <<>> ELSE acc[i - 1] \o F(s[i])
    IN  acc[Len(s)]

\* The sequence of F(x) for the elements x of a sequence.
Map(s, F(_)) == [i \in DOMAIN s |-> F(s[i])]

Range(s) == {s[i] : i \in DOMAIN s}

---------------------------------------------------------------------------
(* parse_jsonl and should_skip                                             *)

\* A line of the transcript: blank, text that is no JSON, or the JSON text of a value.
\* The lines of a transcript file: blank after strip(); text that json.loads
\* rejects with JSONDecodeError; bytes that are not text in the encoding the
\* file is opened with; text nested deeper than the interpreter's recursion
\* limit; JSON text of a value.
BlankLine == [kind |-> "blank"]
BadLine == [kind |-> "bad"]
UndecodableLine == [kind |-> "undecodable"]
DeepLine == [kind |-> "deep"]
JsonLine(v) == [kind |-> "json", value |-> v]

\* Reading and parsing the line raises an exception parse_jsonl does not
\* catch: UnicodeDecodeError from the text-mode read, RecursionError from
\* json.loads.
ReadLineRaises(line) == line.kind \in {"undecodable", "deep"}

SKIP_TYPES ==
    {T("file-history-snapshot"), T("queue-operation"), T("progress"), T("system")}

\* record.get raises AttributeError when the record is no dict; membership in a
\* frozenset raises TypeError for an unhashable type.
should_skip_raises(record) ==
    \/ ~IsDict(record)
    \/ Unhashable(Get(record, "type", E))

\* should_skip without the isMeta test.
should_skip_TypesOnly(record) == Get(record, "type", E) \in SKIP_TYPES

should_skip(record) ==
    \/ Get(record, "type", E) \in SKIP_TYPES
    \/ Truthy(Get(record, "isMeta", Null))

---------------------------------------------------------------------------
(* group_assistant_records                                                 *)

\* The three kinds of item.
UserItem(text, timestamp) == [kind |-> "user", text |-> text, timestamp |-> timestamp]
AssistantItem(blocks, timestamp) ==
    [kind |-> "assistant", blocks |-> blocks, timestamp |-> timestamp]
ToolResultItem(tr, timestamp) == [kind |-> "tool_result", tr |-> tr, timestamp |-> timestamp]

\* The grouper before its first record.
GroupInit == [items |-> <<>>, groups |-> <<>>, order |-> <<>>]

\* "for mid in assistant_order: items.append(...)": the pending groups as items.
PendingItems(g) ==
    [i \in DOMAIN g.order |->
        AssistantItem(g.groups[g.order[i]].blocks, g.groups[g.order[i]].timestamp)]

\* The flush before a user record and at the end of the stream.
\* Flush that emits the pending groups and does not clear the buffers.
Flush_KeepsBuffers(g) ==
    [items |-> g.items \o PendingItems(g), groups |-> g.groups, order |-> g.order]

Flush(g) == [items |-> g.items \o PendingItems(g), groups |-> <<>>, order |-> <<>>]

IsTextBlock(block) == IsDict(block) /\ Get(block, "type", E) = T("text")
IsToolResultBlock(block) == IsDict(block) /\ Get(block, "type", E) = T("tool_result")

\* text_parts: the stripped, non-empty texts of the text blocks of a content list.
TextPart(block) ==
    IF IsTextBlock(block) /\ Strip(Get(block, "text", E).s) # <<>>
    THEN <<Strip(Get(block, "text", E).s)>>
    ELSE <<>>

\* UserItems with the tool results put before the text of the record.
UserItems_ResultsFirst(msg, timestamp) ==
    LET content == Get(msg, "content", E)
        role == Get(msg, "role", E)
    IN  IF role # T("user") THEN <<>>
        ELSE IF IsStr(content)
        THEN IF Strip(content.s) # <<>>
             THEN <<UserItem(Strip(content.s), timestamp)>>
             ELSE <<>>
        ELSE IF IsList(content)
        THEN LET text_parts == FlatMap(content.xs, TextPart)
                 tool_results == SelectSeq(content.xs, IsToolResultBlock)
             IN  [i \in DOMAIN tool_results |-> ToolResultItem(tool_results[i], timestamp)]
                 \o (IF text_parts # <<>>
                     THEN <<UserItem(JoinNL(text_parts), timestamp)>>
                     ELSE <<>>)
        ELSE <<>>

\* The items of a user record's message.
UserItems(msg, timestamp) ==
    LET content == Get(msg, "content", E)
        role == Get(msg, "role", E)
    IN  IF role # T("user") THEN <<>>
        ELSE IF IsStr(content)
        THEN IF Strip(content.s) # <<>>
             THEN <<UserItem(Strip(content.s), timestamp)>>
             ELSE <<>>
        ELSE IF IsList(content)
        THEN LET text_parts == FlatMap(content.xs, TextPart)
                 tool_results == SelectSeq(content.xs, IsToolResultBlock)
             IN  (IF text_parts # <<>>
                  THEN <<UserItem(JoinNL(text_parts), timestamp)>>
                  ELSE <<>>)
                 \o [i \in DOMAIN tool_results |-> ToolResultItem(tool_results[i], timestamp)]
        ELSE <<>>

\* block.get("text", "").strip() raises AttributeError when the text is no string.
UserItemsRaises(msg) ==
    LET content == Get(msg, "content", E)
    IN  /\ Get(msg, "role", E) = T("user")
        /\ IsList(content)
        /\ \E i \in DOMAIN content.xs :
              IsTextBlock(content.xs[i]) /\ ~IsStr(Get(content.xs[i], "text", E))

\* AssistantStep that opens a group for every record, also when the message
\* id has an open group.
AssistantStep_AlwaysNew(g, msg, timestamp, rid) ==
    LET msg_id == Get(msg, "id", E)
        content == Get(msg, "content", List(<<>>))
        key == IF Truthy(msg_id) THEN msg_id ELSE rid
    IN  IF ~IsList(content) THEN g
        ELSE [g EXCEPT
                !.groups = [k \in DOMAIN g.groups \cup {key} |->
                              IF k = key
                              THEN [blocks |-> content.xs, timestamp |-> timestamp]
                              ELSE g.groups[k]],
                !.order = Append(g.order, key)]

\* An assistant record: its blocks join the open group of its message id, or
\* open a new group under key (the message id, or id(record) when it is falsy).
AssistantStep(g, msg, timestamp, rid) ==
    LET msg_id == Get(msg, "id", E)
        content == Get(msg, "content", List(<<>>))
    IN  IF ~IsList(content) THEN g
        ELSE IF Truthy(msg_id) /\ msg_id \in DOMAIN g.groups
        THEN [g EXCEPT !.groups[msg_id].blocks = @ \o content.xs]
        ELSE LET key == IF Truthy(msg_id) THEN msg_id ELSE rid
             IN  [g EXCEPT
                    !.groups = [k \in DOMAIN g.groups \cup {key} |->
                                  IF k = key
                                  THEN [blocks |-> content.xs, timestamp |-> timestamp]
                                  ELSE g.groups[k]],
                    !.order = Append(g.order, key)]

\* "msg_id in assistant_groups" raises TypeError for a truthy unhashable id.
AssistantStepRaises(msg) ==
    /\ IsList(Get(msg, "content", List(<<>>)))
    /\ Truthy(Get(msg, "id", E))
    /\ Unhashable(Get(msg, "id", E))

\* One iteration of the loop over records; rid is id(record).
GroupStep(g, record, rid) ==
    IF should_skip(record) THEN g
    ELSE LET rtype == Get(record, "type", E)
             msg == Get(record, "message", Dict(<<>>))
             timestamp == Get(record, "timestamp", E)
         IN  IF ~IsDict(msg) THEN g
             ELSE IF rtype = T("user")
             THEN [Flush(g) EXCEPT !.items = @ \o UserItems(msg, timestamp)]
             ELSE IF rtype = T("assistant")
             THEN AssistantStep(g, msg, timestamp, rid)
             ELSE g

\* The iteration ends in an exception.
GroupStepRaises(record) ==
    \/ should_skip_raises(record)
    \/ /\ ~should_skip(record)
       /\ IsDict(Get(record, "message", Dict(<<>>)))
       /\ \/ /\ Get(record, "type", E) = T("user")
             /\ UserItemsRaises(Get(record, "message", Dict(<<>>)))
          \/ /\ Get(record, "type", E) = T("assistant")
             /\ AssistantStepRaises(Get(record, "message", Dict(<<>>)))

\* Does the iteration on this record call id(record)?
TakesId(g, record) ==
    /\ ~GroupStepRaises(record)
    /\ ~should_skip(record)
    /\ IsDict(Get(record, "message", Dict(<<>>)))
    /\ Get(record, "type", E) = T("assistant")
    /\ IsList(Get(Get(record, "message", Dict(<<>>)), "content", List(<<>>)))
    /\ ~Truthy(Get(Get(record, "message", Dict(<<>>)), "id", E))

\* group_assistant_records on a list of records none of which raises; ids
\* holds id(record) of the records for which the loop calls it, in order.
group_assistant_records(recs, ids) ==
    LET acc[i \in 0..Len(recs)] ==
            IF i = 0 THEN [g |-> GroupInit, taken |-> 0]
            ELSE IF TakesId(acc[i - 1].g, recs[i])
            THEN [g |-> GroupStep(acc[i - 1].g, recs[i], Num(ids[acc[i - 1].taken + 1])),
                  taken |-> acc[i - 1].taken + 1]
            ELSE [g |-> GroupStep(acc[i - 1].g, recs[i], Num(0)),
                  taken |-> acc[i - 1].taken]
    IN  Flush(acc[Len(recs)].g).items

---------------------------------------------------------------------------
(* Text helpers of the renderer                                            *)

INLINE_RESULT_MAX_LINES == 4

OpenTag == <<"<", "tool_", "use_error", ">">>
CloseTag == <<"<", "/", "tool_", "use_error", ">">>

\* re.sub(r'</?tool_use_error>', '', text): one pass, left to right.
RECURSIVE RemoveTags(_)
RemoveTags(s) ==
    IF s = <<>> THEN <<>>
    ELSE IF StartsWith(s, OpenTag)
    THEN RemoveTags(SubSeq(s, Len(OpenTag) + 1, Len(s)))
    ELSE IF StartsWith(s, CloseTag)
    THEN RemoveTags(SubSeq(s, Len(CloseTag) + 1, Len(s)))
    ELSE <<Head(s)>> \o RemoveTags(Tail(s))

_clean_result_text(text) == Strip(RemoveTags(text))

EscapeChar(c) ==
    IF c = "&" THEN "&amp;" ELSE IF c = "<" THEN "&lt;" ELSE IF c = ">" THEN "&gt;" ELSE c

_escape_html(text) == [i \in DOMAIN text |-> EscapeChar(text[i])]

UnescapeChar(c) ==
    IF c = "&lt;" THEN "<" ELSE IF c = "&gt;" THEN ">" ELSE IF c = "&amp;" THEN "&" ELSE c

_unescape_html(text) == [i \in DOMAIN text |-> UnescapeChar(text[i])]

_truncate(text, max_len) ==
    IF Len(text) <= max_len THEN text ELSE SubSeq(text, 1, max_len) \o <<"...">>

\* _truncate of a field of a tool input: len() raises TypeError for a number,
\* a boolean and null; a list or mapping no longer than max_len is returned
\* as it is and then formatted.
_truncate_raises(v) == v.ty \in {"int", "bool", "null"}
Truncated(v, max_len) == IF IsStr(v) THEN _truncate(v.s, max_len) ELSE PyStr(v)

\* _tool_header raises: "command" without split(), or a field len() rejects.
_tool_header_raises(name, inp) ==
    /\ IsDict(inp)
    /\ \/ name = T("Bash") /\ ~IsStr(Get(inp, "command", E))
       \/ /\ name = T("Grep")
          /\ Truthy(Get(inp, "pattern", E))
          /\ _truncate_raises(Get(inp, "pattern", E))
       \/ name = T("WebFetch") /\ _truncate_raises(Get(inp, "url", E))
       \/ name = T("Task") /\ _truncate_raises(Get(inp, "description", E))

\* _tool_header(name, inp) where it does not raise.
_tool_header(name, inp) ==
    IF ~IsDict(inp) THEN <<"[bullet] ">> \o PyStr(name)
    ELSE IF name = T("Bash")
    THEN <<"[bullet] 'Bash(">> \o _truncate(SplitNL(Get(inp, "command", E).s)[1], 120) \o <<")'">>
    ELSE IF name = T("Read")
    THEN <<"[bullet] 'Read(">> \o PyStr(Get(inp, "file_path", E)) \o <<")'">>
    ELSE IF name = T("Write")
    THEN <<"[bullet] 'Write(">> \o PyStr(Get(inp, "file_path", E)) \o <<")'">>
    ELSE IF name = T("Edit")
    THEN <<"[bullet] 'Update(">> \o PyStr(Get(inp, "file_path", E)) \o <<")'">>
    ELSE IF name = T("Glob")
    THEN <<"[bullet] 'Glob(">> \o PyStr(Get(inp, "pattern", E)) \o <<")'">>
    ELSE IF name = T("Grep")
    THEN IF Truthy(Get(inp, "pattern", E))
         THEN <<"[bullet] Searched for '">> \o Truncated(Get(inp, "pattern", E), 80) \o <<"'">>
         ELSE <<"[bullet] Searched codebase">>
    ELSE IF name = T("WebFetch")
    THEN <<"[bullet] 'WebFetch(">> \o Truncated(Get(inp, "url", E), 100) \o <<")'">>
    ELSE IF name = T("WebSearch")
    THEN <<"[bullet] 'WebSearch(">> \o PyStr(Get(inp, "query", E)) \o <<")'">>
    ELSE IF name = T("Task")
    THEN IF Truthy(Get(inp, "subagent_type", E))
         THEN <<"[bullet] 'Task(">> \o PyStr(Get(inp, "subagent_type", E)) \o <<": ">>
              \o Truncated(Get(inp, "description", E), 100) \o <<")'">>
         ELSE <<"[bullet] 'Task(">> \o Truncated(Get(inp, "description", E), 100) \o <<")'">>
    ELSE <<"[bullet] ">> \o PyStr(name)

\* The part of a tool_result content list that one block contributes.
ResultPart(block) ==
    IF IsDict(block)
    THEN IF Get(block, "type", Null) = T("text") THEN <<Get(block, "text", E).s>>
         ELSE IF Get(block, "type", Null) = T("image") THEN << <<"[image]">> >>
         ELSE <<PyStr(block)>>
    ELSE IF IsStr(block) THEN <<block.s>>
    ELSE <<>>

format_tool_result_content(content) ==
    IF IsStr(content) THEN content.s
    ELSE IF IsList(content) THEN JoinNL(FlatMap(content.xs, ResultPart))
    ELSE IF Truthy(content) THEN PyStr(content) ELSE <<>>

\* "\n".join(parts) raises TypeError when the text of a text block is no string.
format_tool_result_content_raises(content) ==
    /\ IsList(content)
    /\ \E i \in DOMAIN content.xs :
          /\ IsDict(content.xs[i])
          /\ Get(content.xs[i], "type", Null) = T("text")
          /\ ~IsStr(Get(content.xs[i], "text", E))

_render_result_inline(ls, content, is_error) ==
    LET result_lines == SplitNL(content)
        prefix == IF Truthy(is_error) THEN <<"  [hook]  **Error:** ">> ELSE <<"  [hook]  ">>
        cont_prefix == <<"     ">>
    IN  ls \o [i \in DOMAIN result_lines |->
                 IF i = 1 THEN prefix \o result_lines[i] ELSE cont_prefix \o result_lines[i]]
           \o << <<>> >>

\* _render_result_collapsed that does not escape the result.
_render_result_collapsed_Raw(ls, content, summary_text, is_error) ==
    LET summary == IF Truthy(is_error) THEN <<"<b>Error:</b> ">> \o summary_text
                   ELSE summary_text
    IN  ls \o << <<"<details>">>,
                 <<"<summary>">> \o summary \o <<"</summary>">>,
                 <<"<pre><code>">> \o content \o <<"</code></pre>">>,
                 <<"</details>">>,
                 <<"<br>">>,
                 <<>> >>

_render_result_collapsed(ls, content, summary_text, is_error) ==
    LET summary == IF Truthy(is_error) THEN <<"<b>Error:</b> ">> \o summary_text
                   ELSE summary_text
    IN  ls \o << <<"<details>">>,
                 <<"<summary>">> \o summary \o <<"</summary>">>,
                 <<"<pre><code>">> \o _escape_html(content) \o <<"</code></pre>">>,
                 <<"</details>">>,
                 <<"<br>">>,
                 <<>> >>

\* _render_tool_with_result with "<" for "<=": a result of exactly
\* INLINE_RESULT_MAX_LINES lines is collapsed.
_render_tool_with_result_OffByOne(ls, header, result_content, is_error) ==
    LET content == IF result_content # <<>> THEN _clean_result_text(result_content) ELSE <<>>
    IN  IF content = <<>> THEN ls \o <<header, <<>> >>
        ELSE IF Len(SplitNL(content)) < INLINE_RESULT_MAX_LINES
        THEN _render_result_inline(Append(ls, header), content, is_error)
        ELSE _render_result_collapsed(ls, content, _escape_html(header), is_error)

_render_tool_with_result(ls, header, result_content, is_error) ==
    LET content == IF result_content # <<>> THEN _clean_result_text(result_content) ELSE <<>>
    IN  IF content = <<>> THEN ls \o <<header, <<>> >>
        ELSE IF Len(SplitNL(content)) <= INLINE_RESULT_MAX_LINES
        THEN _render_result_inline(Append(ls, header), content, is_error)
        ELSE _render_result_collapsed(ls, content, _escape_html(header), is_error)

---------------------------------------------------------------------------
(* difflib.unified_diff(a, b, lineterm="", n=2) for line lists a and b     *)
(* whose differing middle parts share no line: the common first lines,     *)
(* the lines of a that go, the lines of b that come, the common last       *)
(* lines, with two lines of context in one hunk.                           *)

RECURSIVE CommonPrefix(_, _)
CommonPrefix(a, b) ==
    IF a # <<>> /\ b # <<>> /\ Head(a) = Head(b)
    THEN 1 + CommonPrefix(Tail(a), Tail(b))
    ELSE 0

Reverse(a) == [i \in DOMAIN a |-> a[Len(a) + 1 - i]]

\* _format_range_unified(start, stop)
FormatRange(start, stop) ==
    LET length == stop - start
    IN  IF length = 1 THEN <<ToString(start + 1)>>
        ELSE IF length = 0 THEN <<ToString(start), ",", "0">>
        ELSE <<ToString(start + 1), ",", ToString(length)>>

unified_diff(a, b) ==
    IF a = b THEN <<>>
    ELSE LET pre == CommonPrefix(a, b)
             suf == CommonPrefix(Reverse(SubSeq(a, pre + 1, Len(a))),
                                 Reverse(SubSeq(b, pre + 1, Len(b))))
             before == IF pre < 2 THEN pre ELSE 2
             after == IF suf < 2 THEN suf ELSE 2
             gone == SubSeq(a, pre + 1, Len(a) - suf)
             come == SubSeq(b, pre + 1, Len(b) - suf)
         IN  << <<"-", "-", "-", " ">>, <<"+", "+", "+", " ">> >>
             \o << <<"@", "@", " ", "-">>
                   \o FormatRange(pre - before, Len(a) - suf + after)
                   \o <<" ", "+">>
                   \o FormatRange(pre - before, Len(b) - suf + after)
                   \o <<" ", "@", "@">> >>
             \o [i \in 1..before |-> <<" ">> \o a[pre - before + i]]
             \o [i \in DOMAIN gone |-> <<"-">> \o gone[i]]
             \o [i \in DOMAIN come |-> <<"+">> \o come[i]]
             \o [i \in 1..after |-> <<" ">> \o a[Len(a) - suf + i]]

---------------------------------------------------------------------------
(* render_markdown                                                         *)

\* IndexStep with the result stored under the block's "id" field, which a
\* tool_result block does not have, instead of under "tool_use_id".
IndexStep_WrongKey(map, item) ==
    IF item.kind = "tool_result"
    THEN LET tr == item.tr
             content == Strip(format_tool_result_content(Get(tr, "content", E)))
             tid == Get(tr, "id", E)
         IN  IF Truthy(tid)
             THEN [k \in DOMAIN map \cup {tid} |->
                     IF k = tid
                     THEN [content |-> content, is_error |-> Get(tr, "is_error", Bool(FALSE))]
                     ELSE map[k]]
             ELSE map
    ELSE map

\* IndexStep that keeps the entry an id already has: first write wins.
IndexStep_FirstWins(map, item) ==
    IF item.kind = "tool_result"
    THEN LET tr == item.tr
             content == Strip(format_tool_result_content(Get(tr, "content", E)))
             tid == Get(tr, "tool_use_id", E)
         IN  IF Truthy(tid) /\ tid \notin DOMAIN map
             THEN [k \in DOMAIN map \cup {tid} |->
                     IF k = tid
                     THEN [content |-> content, is_error |-> Get(tr, "is_error", Bool(FALSE))]
                     ELSE map[k]]
             ELSE map
    ELSE map

\* One iteration of the first pass: a tool_result item enters the index.
IndexStep(map, item) ==
    IF item.kind = "tool_result"
    THEN LET tr == item.tr
             content == Strip(format_tool_result_content(Get(tr, "content", E)))
             tid == Get(tr, "tool_use_id", E)
         IN  IF Truthy(tid)
             THEN [k \in DOMAIN map \cup {tid} |->
                     IF k = tid
                     THEN [content |-> content, is_error |-> Get(tr, "is_error", Bool(FALSE))]
                     ELSE map[k]]
             ELSE map
    ELSE map

\* The iteration raises: a text part that is no string, or an unhashable id.
IndexStepRaises(item) ==
    /\ item.kind = "tool_result"
    /\ \/ format_tool_result_content_raises(Get(item.tr, "content", E))
       \/ /\ Truthy(Get(item.tr, "tool_use_id", E))
          /\ Unhashable(Get(item.tr, "tool_use_id", E))

\* The first pass over all items.
BuildIndex(its) ==
    LET acc[i \in 0..Len(its)] == IF i = 0 THEN <<>> ELSE IndexStep(acc[i - 1], its[i])
    IN  acc[Len(its)]

ContinuationMarker == "This session is being continued from a previous"

\* "\n".join(f"> {line}" for line in text.split("\n"))
Quoted(text) == JoinNL([i \in DOMAIN SplitNL(text) |-> <<"> ">> \o SplitNL(text)[i]])

RenderUser(ls, text) ==
    IF StartsWith(text, <<ContinuationMarker>>)
    THEN ls \o << <<"**Context restored from previous session (ran out of context):**">>,
                  <<"<details>">>,
                  <<"<summary>Session summary</summary>">>,
                  <<>>,
                  Quoted(text),
                  <<>>,
                  <<"</details>">>,
                  <<"<br>">>,
                  <<>> >>
    ELSE ls \o << <<"**User:**", "\n">> \o Quoted(text), <<>> >>

RenderText(ls, block) ==
    LET text == _unescape_html(Strip(Get(block, "text", E).s))
    IN  IF text = <<>> THEN ls
        ELSE (IF ls # <<>> /\ ls[Len(ls)] # <<>> THEN Append(ls, <<>>) ELSE ls)
             \o <<text, <<>> >>

\* l.startswith(("---", "+++"))
IsFileHeaderLine(l) ==
    StartsWith(l, <<"-", "-", "-">>) \/ StartsWith(l, <<"+", "+", "+">>)

\* KeepsDiffLine that keeps every line of the diff.
KeepsDiffLine_All(l) == TRUE

KeepsDiffLine(l) == ~IsFileHeaderLine(l)

\* The diff of an Edit call: the lines put between the fences.
DiffBody(tool_input) ==
    LET old == Get(tool_input, "old_string", E)
        new == Get(tool_input, "new_string", E)
    IN  IF Truthy(old) \/ Truthy(new)
        THEN SelectSeq(unified_diff(SplitLines(old.s), SplitLines(new.s)), KeepsDiffLine)
        ELSE <<>>

\* The Edit branch: header, fenced diff, inline result.
RenderEdit(ls, header, tool_input, result_content, result_is_error) ==
    LET diff_body == DiffBody(tool_input)
        withDiff == IF diff_body # <<>>
                    THEN Append(ls, header) \o << <<"'''diff">> >> \o diff_body
                         \o << <<"'''">> >>
                    ELSE Append(ls, header)
    IN  IF result_content # <<>>
        THEN _render_result_inline(withDiff, _clean_result_text(result_content),
                                   result_is_error)
        ELSE Append(withDiff, <<>>)

\* tool_results_map.get(tool_id)
Lookup(map, tool_id) ==
    IF tool_id \in DOMAIN map THEN map[tool_id]
    ELSE [content |-> <<>>, is_error |-> Bool(FALSE)]

RenderToolUse(ls, block, map) ==
    LET tool_name == Get(block, "name", T("unknown"))
        tool_input == Get(block, "input", Dict(<<>>))
        header == _tool_header(tool_name, tool_input)
        result == Lookup(map, Get(block, "id", E))
    IN  IF tool_name = T("Edit")
        THEN RenderEdit(ls, header, tool_input, result.content, result.is_error)
        ELSE _render_tool_with_result(ls, header, result.content, result.is_error)

\* RenderBlock with a thinking block rendered as the text block it resembles.
RenderBlock_ShowsThinking(ls, block, map) ==
    IF ~IsDict(block) THEN ls
    ELSE LET btype == Get(block, "type", E)
         IN  IF btype = T("thinking")
             THEN RenderText(ls, Dict([type |-> T("text"),
                                       text |-> Get(block, "thinking", E)]))
             ELSE IF btype = T("text") THEN RenderText(ls, block)
             ELSE IF btype = T("tool_use") THEN RenderToolUse(ls, block, map)
             ELSE ls

\* One block of an assistant item.
RenderBlock(ls, block, map) ==
    IF ~IsDict(block) THEN ls
    ELSE LET btype == Get(block, "type", E)
         IN  IF btype = T("thinking") THEN ls
             ELSE IF btype = T("text") THEN RenderText(ls, block)
             ELSE IF btype = T("tool_use") THEN RenderToolUse(ls, block, map)
             ELSE ls

\* The block raises: a text that is no string, an unhashable tool id, an Edit
\* input that is no mapping, or old_string/new_string that are no strings.
RenderBlockRaises(block) ==
    /\ IsDict(block)
    /\ \/ /\ Get(block, "type", E) = T("text")
          /\ ~IsStr(Get(block, "text", E))
       \/ /\ Get(block, "type", E) = T("tool_use")
          /\ \/ Unhashable(Get(block, "id", E))
             \/ _tool_header_raises(Get(block, "name", T("unknown")),
                                    Get(block, "input", Dict(<<>>)))
             \/ /\ Get(block, "name", T("unknown")) = T("Edit")
                /\ LET tool_input == Get(block, "input", Dict(<<>>))
                   IN  \/ ~IsDict(tool_input)
                       \/ /\ \/ Truthy(Get(tool_input, "old_string", E))
                             \/ Truthy(Get(tool_input, "new_string", E))
                          /\ \/ ~IsStr(Get(tool_input, "old_string", E))
                             \/ ~IsStr(Get(tool_input, "new_string", E))

\* The lines after the first n blocks of an assistant item.
RenderBlocks(ls, blocks, n, map) ==
    LET acc[i \in 0..n] == IF i = 0 THEN ls ELSE RenderBlock(acc[i - 1], blocks[i], map)
    IN  acc[n]

\* One iteration of the second pass.
RenderItem(ls, item, map) ==
    IF item.kind = "user" THEN RenderUser(ls, item.text)
    ELSE IF item.kind = "tool_result" THEN ls
    ELSE LET done == RenderBlocks(ls, item.blocks, Len(item.blocks), map)
         IN  IF done # <<>> /\ done[Len(done)] # <<>> THEN Append(done, <<>>) ELSE done

RenderItemRaises(item) ==
    /\ item.kind = "assistant"
    /\ \E i \in DOMAIN item.blocks : RenderBlockRaises(item.blocks[i])

\* render_markdown on items none of which raises.
render_markdown(its) ==
    LET map == BuildIndex(its)
        acc[i \in 0..Len(its)] == IF i = 0 THEN <<>> ELSE RenderItem(acc[i - 1], its[i], map)
    IN  JoinNL(acc[Len(its)])

---------------------------------------------------------------------------
(* render_header                                                           *)

Digits == {"0", "1", "2", "3", "4", "5", "6", "7", "8", "9"}

\* s[:8]
First8(s) == SubSeq(s, 1, IF Len(s) < 8 THEN Len(s) ELSE 8)

\* re.search(r'T(\d{2}:\d{2})', s): group 1 of the first match, <<>> without one.
RECURSIVE FindTime(_, _)
FindTime(s, i) ==
    IF i + 5 > Len(s) THEN <<>>
    ELSE IF /\ s[i] = "T"
            /\ s[i + 1] \in Digits /\ s[i + 2] \in Digits
            /\ s[i + 3] = ":"
            /\ s[i + 4] \in Digits /\ s[i + 5] \in Digits
    THEN SubSeq(s, i + 1, i + 5)
    ELSE FindTime(s, i + 1)

\* An absent argument is None.
render_header(a) ==
    LET short_session == IF Truthy(a.session_id) THEN First8(a.session_id.s)
                         ELSE <<"unknown">>
        date_str == IF Truthy(a.date) THEN a.date.s ELSE <<"unknown date">>
        m == IF Truthy(a.start_time) THEN FindTime(a.start_time.s, 1) ELSE <<>>
        date_display == IF m # <<>> THEN date_str \o <<" ">> \o m ELSE date_str
        short_agent == IF Truthy(a.agent_id) THEN First8(a.agent_id.s) ELSE <<>>
        title == IF Truthy(a.agent_type)
                 THEN <<"# Subagent: ">> \o a.agent_type.s
                      \o (IF short_agent # <<>> THEN <<" '">> \o short_agent \o <<"'">>
                          ELSE <<>>)
                      \o <<" [emdash] ">> \o date_display
                 ELSE <<"# Session '">> \o short_session \o <<"' [emdash] ">> \o date_display
        meta == IF Truthy(a.agent_type)
                THEN << <<"*Parent session: '">> \o short_session \o <<"'*">>, <<>> >>
                ELSE <<>>
    IN  JoinNL(<<title, <<>> >> \o meta \o << <<"-", "-", "-">>, <<>> >>)

---------------------------------------------------------------------------
(* main                                                                    *)

Absent == [exists |-> FALSE, text |-> <<>>]
File(text) == [exists |-> TRUE, text |-> text]

\* The addresses id() may return.
Addr == 1..(MaxLines + 1)

\* An uncaught exception: traceback, exit status 1, nothing written.
Crash ==
    /\ pc' = "exit"
    /\ exitCode' = 1
    /\ UNCHANGED <<hookVars, installVars>>
    /\ UNCHANGED <<runs, transcript, args, outFile, outFile0, outDir, records, li, addrs, gi, items,
                   assistant_groups, assistant_order, tool_results_map, ri, lines, calls>>

\* parse_jsonl: open() raises FileNotFoundError, sys.exit(1).
\* FileNotFound that returns no records instead: main writes the empty file.
FileNotFound_ReturnsEmpty ==
    /\ pc = "parse"
    /\ ~transcript.exists
    /\ pc' = "exit"
    /\ exitCode' = 0
    /\ outFile' = IF ~outFile.exists THEN File(<<>>) ELSE outFile
    /\ outDir' = (outDir \/ ~outFile.exists)
    /\ UNCHANGED <<hookVars, installVars>>
    /\ UNCHANGED <<runs, transcript, args, outFile0, records, li, addrs, gi, items,
                   assistant_groups, assistant_order, tool_results_map, ri, lines, calls>>

FileNotFound ==
    /\ pc = "parse"
    /\ ~transcript.exists
    /\ pc' = "exit"
    /\ exitCode' = 1
    /\ UNCHANGED <<hookVars, installVars>>
    /\ UNCHANGED <<runs, transcript, args, outFile, outFile0, outDir, records, li, addrs, gi, items,
                   assistant_groups, assistant_order, tool_results_map, ri, lines, calls>>

\* json.loads(raw_line) of a line that is JSON text.
Parse(line) == line.value

\* parse_jsonl: one iteration of "for raw_line in f".
ReadLine ==
    /\ pc = "parse"
    /\ transcript.exists
    /\ li < Len(transcript.lines)
    /\ IF ReadLineRaises(transcript.lines[li + 1]) THEN Crash
       ELSE /\ li' = li + 1
            /\ records' = IF transcript.lines[li + 1].kind = "json"
                          THEN Append(records, Parse(transcript.lines[li + 1]))
                          ELSE records
            /\ UNCHANGED <<hookVars, installVars>>
            /\ UNCHANGED <<runs, transcript, args, outFile, outFile0, outDir, pc, exitCode, addrs, gi,
                           items, assistant_groups, assistant_order, tool_results_map, ri,
                           lines, calls>>

\* main: "if not records": the output is created empty unless it exists.
\* NoRecords that opens the output for writing whether it exists or not.
NoRecords_Truncates ==
    /\ pc = "parse"
    /\ transcript.exists
    /\ li = Len(transcript.lines)
    /\ records = <<>>
    /\ outFile' = File(<<>>)
    /\ outDir' = TRUE
    /\ pc' = "exit"
    /\ exitCode' = 0
    /\ UNCHANGED <<hookVars, installVars>>
    /\ UNCHANGED <<runs, transcript, args, outFile0, records, li, addrs, gi, items,
                   assistant_groups, assistant_order, tool_results_map, ri, lines, calls>>

NoRecords ==
    /\ pc = "parse"
    /\ transcript.exists
    /\ li = Len(transcript.lines)
    /\ records = <<>>
    /\ outFile' = IF ~outFile.exists THEN File(<<>>) ELSE outFile
    /\ outDir' = (outDir \/ ~outFile.exists)
    /\ pc' = "exit"
    /\ exitCode' = 0
    /\ UNCHANGED <<hookVars, installVars>>
    /\ UNCHANGED <<runs, transcript, args, outFile0, records, li, addrs, gi, items,
                   assistant_groups, assistant_order, tool_results_map, ri, lines, calls>>

\* group_assistant_records: one iteration of "for record in records".
GroupRecord ==
    /\ pc = "group"
    /\ gi < Len(records)
    /\ LET record == records[gi + 1]
           g == [items |-> items, groups |-> assistant_groups, order |-> assistant_order]
       IN  IF GroupStepRaises(record) THEN Crash
           ELSE \E a \in (IF TakesId(g, record) THEN Addr \ Range(addrs) ELSE {0}) :
                  /\ addrs' = IF a = 0 THEN addrs ELSE Append(addrs, a)
                  /\ gi' = gi + 1
                  /\ items' = GroupStep(g, record, Num(a)).items
                  /\ assistant_groups' = GroupStep(g, record, Num(a)).groups
                  /\ assistant_order' = GroupStep(g, record, Num(a)).order
                  /\ UNCHANGED <<hookVars, installVars>>
                  /\ UNCHANGED <<runs, transcript, args, outFile, outFile0, outDir, pc, exitCode, records,
                                 li, tool_results_map, ri, lines, calls>>

\* group_assistant_records: "Flush remaining assistant groups" after the loop.
\* The groups themselves are not cleared here.
Grouped ==
    /\ pc = "group"
    /\ gi = Len(records)
    /\ items' = items \o PendingItems([groups |-> assistant_groups,
                                       order |-> assistant_order])
    /\ pc' = "index"
    /\ UNCHANGED <<hookVars, installVars>>
    /\ UNCHANGED <<runs, transcript, args, outFile, outFile0, outDir, exitCode, records, li, addrs, gi,
                   assistant_groups, assistant_order, tool_results_map, ri, lines, calls>>

\* render_markdown: the first pass over the items.
IndexItems ==
    /\ pc = "index"
    /\ IF \E i \in DOMAIN items : IndexStepRaises(items[i])
       THEN Crash
       ELSE /\ tool_results_map' = BuildIndex(items)
            /\ pc' = "render"
            /\ UNCHANGED <<hookVars, installVars>>
            /\ UNCHANGED <<runs, transcript, args, outFile, outFile0, outDir, exitCode, records, li,
                           addrs, gi, items, assistant_groups, assistant_order, ri, lines,
                           calls>>

\* Where the tool_use blocks of an item come to lie in lines.
CallsOf(ls, n, item, map) ==
    IF item.kind # "assistant" THEN <<>>
    ELSE LET IsCall(j) == /\ IsDict(item.blocks[j])
                          /\ Get(item.blocks[j], "type", E) = T("tool_use")
             call(j) == [item |-> n, block |-> j,
                         from |-> Len(RenderBlocks(ls, item.blocks, j - 1, map)) + 1,
                         to |-> Len(RenderBlocks(ls, item.blocks, j, map))]
             acc[j \in 0..Len(item.blocks)] ==
                 IF j = 0 THEN <<>>
                 ELSE IF IsCall(j) THEN Append(acc[j - 1], call(j)) ELSE acc[j - 1]
         IN  acc[Len(item.blocks)]

\* render_markdown: one iteration of the second pass.
RenderNext ==
    /\ pc = "render"
    /\ ri < Len(items)
    /\ IF RenderItemRaises(items[ri + 1]) THEN Crash
       ELSE /\ ri' = ri + 1
            /\ lines' = RenderItem(lines, items[ri + 1], tool_results_map)
            /\ calls' = calls \o CallsOf(lines, ri + 1, items[ri + 1], tool_results_map)
            /\ UNCHANGED <<hookVars, installVars>>
            /\ UNCHANGED <<runs, transcript, args, outFile, outFile0, outDir, pc, exitCode, records, li,
                           addrs, gi, items, assistant_groups, assistant_order,
                           tool_results_map>>

\* main: f.write(header + body).
\* WriteOutput that writes the empty file when the grouper returned no Item.
WriteOutput_EmptyWithoutItems ==
    /\ pc = "render"
    /\ ri = Len(items)
    /\ outFile' = IF items = <<>> THEN File(<<>>)
                  ELSE File(render_header(args) \o JoinNL(lines))
    /\ outDir' = TRUE
    /\ pc' = "exit"
    /\ exitCode' = 0
    /\ UNCHANGED <<hookVars, installVars>>
    /\ UNCHANGED <<runs, transcript, args, outFile0, records, li, addrs, gi, items,
                   assistant_groups, assistant_order, tool_results_map, ri, lines, calls>>

WriteOutput ==
    /\ pc = "render"
    /\ ri = Len(items)
    /\ outFile' = File(render_header(args) \o JoinNL(lines))
    /\ outDir' = TRUE
    /\ pc' = "exit"
    /\ exitCode' = 0
    /\ UNCHANGED <<hookVars, installVars>>
    /\ UNCHANGED <<runs, transcript, args, outFile0, records, li, addrs, gi, items,
                   assistant_groups, assistant_order, tool_results_map, ri, lines, calls>>

\* main: parse_jsonl has returned a non-empty list.
Parsed ==
    /\ pc = "parse"
    /\ transcript.exists
    /\ li = Len(transcript.lines)
    /\ records # <<>>
    /\ pc' = "group"
    /\ UNCHANGED <<hookVars, installVars>>
    /\ UNCHANGED <<runs, transcript, args, outFile, outFile0, outDir, exitCode, records, li, addrs, gi,
                   items, assistant_groups, assistant_order, tool_results_map, ri, lines,
                   calls>>

Next ==
    \/ FileNotFound
    \/ ReadLine
    \/ NoRecords
    \/ Parsed
    \/ GroupRecord
    \/ Grouped
    \/ IndexItems
    \/ RenderNext
    \/ WriteOutput

\* Every transcript of at most MaxLines lines drawn from a set, and the missing one.
Transcripts(LineSet) ==
    {[exists |-> FALSE, lines |-> <<>>]}
    \cup {[exists |-> TRUE, lines |-> l] :
            l \in UNION {[1..n -> LineSet] : n \in 0..MaxLines}}

\* The two hooks.
Hooks == {"Stop", "SubagentStop"}

\* No hook runs.
HooksOff ==
    /\ hook_stdin = [h \in Hooks |-> BlankLine]
    /\ hpc = [h \in Hooks |-> "off"]
    /\ hexit = [h \in Hooks |-> -1]
    /\ tfile = [h \in Hooks |-> [exists |-> FALSE, size |-> 0]]
    /\ prev_size = [h \in Hooks |-> -1]
    /\ polls = [h \in Hooks |-> <<>>]
    /\ first_ts = [h \in Hooks |-> Null]
    /\ stamp = [h \in Hooks |-> Null]
    /\ logsDir = TRUE
    /\ errLog = Absent
    /\ errLog0 = Absent
    /\ err_f = [h \in Hooks |-> "closed"]
    /\ wrote = [h \in Hooks |-> "none"]

\* The settings file: not there, or holding a text.
SettingsAbsent == [exists |-> FALSE, content |-> BlankLine]
SettingsFile(content) == [exists |-> TRUE, content |-> content]

\* The installer does not run.
InstallerOff ==
    /\ ipc = "off"
    /\ iexit = -1
    /\ gitDir = TRUE
    /\ installed = TRUE
    /\ answers = <<>>
    /\ tz_value = <<>>
    /\ settings = SettingsAbsent
    /\ settings0 = SettingsAbsent

\* The state when main() starts.
InitIn(LineSet, ArgSet, OutSet, DirSet) ==
    /\ HooksOff
    /\ InstallerOff
    /\ transcript \in Transcripts(LineSet)
    /\ args \in ArgSet
    /\ outFile \in OutSet
    /\ outFile0 = outFile
    /\ outDir \in {d \in DirSet : outFile.exists => d}
    /\ pc = "parse"
    /\ exitCode = -1
    /\ records = <<>>
    /\ li = 0
    /\ addrs = <<>>
    /\ gi = 0
    /\ items = <<>>
    /\ assistant_groups = <<>>
    /\ assistant_order = <<>>
    /\ tool_results_map = <<>>
    /\ ri = 0
    /\ lines = <<>>
    /\ calls = <<>>
    /\ runs = 1

\* The state when main() starts in an existing output directory, as when a
\* hook has made .claude/logs before it runs the converter.
InitWith(LineSet, ArgSet, OutSet) == InitIn(LineSet, ArgSet, OutSet, {TRUE})

---------------------------------------------------------------------------
(* Transcripts                                                             *)

Timestamp == T("2026-02-16T10:00:00.000Z")

Record(type, message) ==
    Dict([type |-> T(type), message |-> message, timestamp |-> Timestamp])
MetaRecord(type, message) ==
    Dict([type |-> T(type), message |-> message, timestamp |-> Timestamp,
          isMeta |-> Bool(TRUE)])
UserMessage(content) == Dict([role |-> T("user"), content |-> content])
AssistantMessage(id, blocks) ==
    Dict([id |-> id, role |-> T("assistant"), content |-> List(blocks)])
AssistantMessageNoId(blocks) == Dict([role |-> T("assistant"), content |-> List(blocks)])
TextBlock(text) == Dict([type |-> T("text"), text |-> text])
ThinkingBlock(text) == Dict([type |-> T("thinking"), thinking |-> text])
ToolUse(id, name, inp) ==
    Dict([type |-> T("tool_use"), id |-> T(id), name |-> T(name), input |-> inp])
ToolResult(id, content, is_error) ==
    Dict([type |-> T("tool_result"), tool_use_id |-> T(id), content |-> content,
          is_error |-> Bool(is_error)])

\* A text of n lines.
TextOfLines(n) == JoinNL([i \in 1..n |-> <<"line", ToString(i)>>])

\* The command lines.
ArgsNone ==
    [session_id |-> Null, date |-> Null, start_time |-> Null, agent_type |-> Null,
     agent_id |-> Null]
ArgsSession ==
    [session_id |-> Str(<<"a", "b", "c", "d", "e", "f", "0", "1", "2", "3">>),
     date |-> T("2026-02-16"),
     start_time |-> Str(<<"2026-02-16", "T", "1", "0", ":", "3", "0", ":", "0", "0", "Z">>),
     agent_type |-> Null, agent_id |-> Null]
ArgsSubagent ==
    [ArgsSession EXCEPT !.agent_type = T("Explore"),
                        !.agent_id = Str(<<"9", "8", "7", "6", "5", "4", "3", "2", "1">>)]

\* A conversation: user turns, assistant messages in parts, a skipped kind,
\* a meta record, a record without message id, a tool call and its result.
UserHello == Record("user", UserMessage(T("hello")))
AssistantOne == Record("assistant", AssistantMessage(T("m1"), <<TextBlock(T("one"))>>))
AssistantTwo ==
    Record("assistant",
           AssistantMessage(T("m1"), <<ThinkingBlock(T("hmm")), TextBlock(T("two"))>>))
AssistantCall ==
    Record("assistant",
           AssistantMessage(T("m2"),
               <<ToolUse("t1", "Read", Dict([file_path |-> T("/tmp/a.txt")]))>>))
UserResult ==
    Record("user", UserMessage(List(<<ToolResult("t1", Str(TextOfLines(2)), FALSE)>>)))
AssistantNoId == Record("assistant", AssistantMessageNoId(<<TextBlock(T("three"))>>))
\* A message id that is a JSON number.
AssistantIntId ==
    Record("assistant", AssistantMessage(Num(1), <<TextBlock(T("int"))>>))
SystemRecord == Record("system", UserMessage(T("compacted")))
MetaUser == MetaRecord("user", UserMessage(T("caveat")))

ConversationLines ==
    {JsonLine(UserHello), JsonLine(AssistantOne), JsonLine(AssistantTwo),
     JsonLine(AssistantCall), JsonLine(UserResult), JsonLine(AssistantNoId),
     JsonLine(SystemRecord), JsonLine(MetaUser), JsonLine(AssistantIntId)}

Init == InitWith(ConversationLines, {ArgsSession}, {Absent})

Spec == Init /\ [][Next]_vars

\* Tool calls: three parallel calls in one message, two Edit calls in another,
\* and user records that carry their results: of 1, 4 and 5 lines, and one
\* that is nothing but the error wrapper tags.
CallsRecord ==
    Record("assistant",
           AssistantMessage(T("m3"),
               <<ToolUse("t1", "Read", Dict([file_path |-> T("/tmp/a.txt")])),
                 ToolUse("t2", "Bash", Dict([command |-> Str(<<"ls", " ", "-la">>)])),
                 ToolUse("t5", "Grep", Dict([pattern |-> T("TODO")]))>>))
EditRecord ==
    Record("assistant",
           AssistantMessage(T("m4"),
               <<ToolUse("t3", "Edit",
                         Dict([file_path |-> T("/tmp/t.py"),
                               old_string |-> Str(<<"keep", "\n", "-", "-", "flag", "\n", "end">>),
                               new_string |-> Str(<<"keep", "\n", "+", "+", "flag", "\n", "end">>)])),
                 ToolUse("t4", "Edit",
                         Dict([file_path |-> T("/tmp/u.py"),
                               old_string |-> T("wrold"),
                               new_string |-> T("world")]))>>))
ResultOne ==
    Record("user",
           UserMessage(List(<<ToolResult("t1", Str(TextOfLines(1)), FALSE),
                              ToolResult("t5", Str(OpenTag \o CloseTag), TRUE)>>)))
ResultFive ==
    Record("user", UserMessage(List(<<ToolResult("t2", Str(TextOfLines(5)), FALSE)>>)))
ResultsMany ==
    Record("user",
           UserMessage(List(<<ToolResult("t1", Str(TextOfLines(5)), FALSE),
                              ToolResult("t2", Str(TextOfLines(4)), FALSE),
                              ToolResult("t3", Str(TextOfLines(5)), FALSE),
                              ToolResult("t4", T("ok"), FALSE)>>)))

ToolLines ==
    {JsonLine(CallsRecord), JsonLine(EditRecord), JsonLine(ResultOne),
     JsonLine(ResultFive), JsonLine(ResultsMany), JsonLine(UserHello)}

InitTools == InitWith(ToolLines, {ArgsSession}, {Absent})

SpecTools == InitTools /\ [][Next]_vars

\* Transcript files with lines that are no JSON text, and output paths that
\* are absent (in a directory that exists or not), hold an empty file, or hold
\* a file with content.
FileLines ==
    {BlankLine, BadLine, UndecodableLine, DeepLine, JsonLine(UserHello),
     JsonLine(AssistantOne)}

InitFiles ==
    InitIn(FileLines, {ArgsSession}, {Absent, File(<<>>), File(<<"old", "\n">>)}, BOOLEAN)

SpecFiles == InitFiles /\ [][Next]_vars

\* The most runs of the converter on one transcript and one output path.
MaxRuns == 3

\* The converter is started again with the same command line once a run has
\* ended, as the hooks do at every stop of a session: the transcript is the
\* same and the output path is as the runs before have left it.
Rerun ==
    /\ pc = "exit"
    /\ runs < MaxRuns
    /\ runs' = runs + 1
    /\ pc' = "parse"
    /\ exitCode' = -1
    /\ records' = <<>>
    /\ li' = 0
    /\ addrs' = <<>>
    /\ gi' = 0
    /\ items' = <<>>
    /\ assistant_groups' = <<>>
    /\ assistant_order' = <<>>
    /\ tool_results_map' = <<>>
    /\ ri' = 0
    /\ lines' = <<>>
    /\ calls' = <<>>
    /\ UNCHANGED <<hookVars, installVars>>
    /\ UNCHANGED <<transcript, args, outFile, outFile0, outDir>>

RerunNext == Next \/ Rerun

SpecReruns == InitFiles /\ [][RerunNext]_vars

\* Transcripts whose lines are JSON text of values that are no records, or
\* of records whose fields have other types than the converter reads them as.
NumberLine == JsonLine(Num(5))

\* Records that yield no Item: skip-listed, meta-flagged, of a type that is
\* neither user nor assistant, a user record whose text is blank; with them a
\* value that is no record and a user record that yields an Item.  The output
\* path is absent or holds a file with content.
SummaryRecord == Dict([type |-> T("summary"), summary |-> T("s")])
BlankUser == Record("user", UserMessage(Str(<<" ", "\n", " ">>)))

SilentLines ==
    {JsonLine(SystemRecord), JsonLine(MetaUser), JsonLine(SummaryRecord),
     JsonLine(BlankUser), NumberLine, JsonLine(UserHello)}

InitSilent == InitWith(SilentLines, {ArgsSession}, {Absent, File(<<"old", "\n">>)})

SpecSilent == InitSilent /\ [][Next]_vars
StringLine == JsonLine(T("x"))
TextNotString ==
    Record("assistant", AssistantMessage(T("m5"), <<TextBlock(Num(5))>>))
InputNotMapping ==
    Record("assistant",
           AssistantMessage(T("m6"), <<ToolUse("t6", "Edit", List(<<T("a")>>))>>))
OldNotString ==
    Record("assistant",
           AssistantMessage(T("m7"),
               <<ToolUse("t7", "Edit",
                         Dict([file_path |-> T("/tmp/t.py"), old_string |-> Num(5),
                               new_string |-> T("x")]))>>))
CommandNotString ==
    Record("assistant",
           AssistantMessage(T("m8"),
               <<ToolUse("t8", "Bash", Dict([command |-> List(<<T("ls")>>)])),
                 ToolUse("t9", "Read", T("/tmp/a.txt"))>>))
MissingContent ==
    Dict([type |-> T("assistant"), timestamp |-> Timestamp,
          message |-> Dict([id |-> T("m9"), role |-> T("assistant")])])

FaultLines ==
    {NumberLine, StringLine, JsonLine(TextNotString), JsonLine(InputNotMapping),
     JsonLine(OldNotString), JsonLine(CommandNotString), JsonLine(MissingContent),
     JsonLine(UserHello)}

InitFaults == InitWith(FaultLines, {ArgsSession}, {Absent})

SpecFaults == InitFaults /\ [][Next]_vars

\* User records: text segments with blanks around them, segments of blanks
\* only, tool results between the segments, a block that is no mapping, and
\* plain strings that are blank or padded.
UserMixed ==
    Record("user",
           UserMessage(List(<<TextBlock(Str(<<" ", " ", "a", " ">>)),
                              ToolResult("t1", T("r1"), FALSE),
                              TextBlock(Str(<<" ", "\n">>)),
                              T("raw"),
                              TextBlock(Str(<<"b", "\n">>)),
                              ToolResult("t2", T("r2"), TRUE)>>)))
UserOnlyResults ==
    Record("user",
           UserMessage(List(<<ToolResult("t1", T("first"), FALSE),
                              TextBlock(Str(<<" ">>)),
                              ToolResult("t1", T("second"), TRUE)>>)))
UserBlankString == Record("user", UserMessage(Str(<<" ", "\n", " ">>)))
UserPadded == Record("user", UserMessage(Str(<<"\n", "hi", " ", "there", " ">>)))

UserLines ==
    {JsonLine(UserMixed), JsonLine(UserOnlyResults), JsonLine(UserBlankString),
     JsonLine(UserPadded), JsonLine(UserHello), JsonLine(AssistantOne),
     JsonLine(CallsRecord)}

InitUsers == InitWith(UserLines, {ArgsSession}, {Absent})

SpecUsers == InitUsers /\ [][Next]_vars

\* Tool calls whose headers are at stake: fields with a newline in them, a
\* tool name with a newline in it, a tool the table does not know, an input
\* that is no mapping, and fields one character longer than, and as long as,
\* the length _tool_header truncates them to.
Chars(n, c) == [i \in 1..n |-> c]

NamedToolUse(id, name, inp) ==
    Dict([type |-> T("tool_use"), id |-> T(id), name |-> name, input |-> inp])

NewlineCalls ==
    Record("assistant",
           AssistantMessage(T("m8"),
               <<ToolUse("h1", "Read", Dict([file_path |-> Str(<<"a", "\n", "b">>)])),
                 ToolUse("h2", "Grep", Dict([pattern |-> Str(<<"x", "\n", "y">>)])),
                 NamedToolUse("h3", Str(<<"Custom", "\n", "Tool">>), Dict(<<>>)),
                 ToolUse("h4", "CustomTool", Dict([k |-> Num(1)])),
                 ToolUse("h5", "Read", List(<<T("a")>>)),
                 ToolUse("h6", "WebSearch", Dict([query |-> Str(<<"a", "\n", "b">>)]))>>))
LongCalls ==
    Record("assistant",
           AssistantMessage(T("m9"),
               <<ToolUse("h7", "Bash",
                         Dict([command |-> Str(Chars(121, "c") \o <<"\n", "second">>)])),
                 ToolUse("h8", "WebFetch", Dict([url |-> Str(Chars(101, "u"))])),
                 ToolUse("h9", "WebFetch", Dict([url |-> Str(Chars(100, "u"))])),
                 ToolUse("h10", "WebSearch", Dict([query |-> Str(Chars(124, "q"))])),
                 ToolUse("h11", "Task",
                         Dict([description |-> Str(Chars(101, "d")),
                               subagent_type |-> T("Explore")])),
                 ToolUse("h12", "Task", Dict([description |-> T("short")]))>>))

HeaderLines == {JsonLine(NewlineCalls), JsonLine(LongCalls), JsonLine(UserHello)}

InitHeaders == InitWith(HeaderLines, {ArgsSession}, {Absent})

SpecHeaders == InitHeaders /\ [][Next]_vars

---------------------------------------------------------------------------
(* What the claims speak of                                                *)

\* The run has ended normally after rendering a body.
Rendered == pc = "exit" /\ exitCode = 0 /\ records # <<>>

\* sub occurs in s as a run of consecutive characters.
Contains(s, sub) ==
    \E i \in 0..(Len(s) - Len(sub)) : SubSeq(s, i + 1, i + Len(sub)) = sub

EndsWith(s, suffix) ==
    Len(s) >= Len(suffix) /\ SubSeq(s, Len(s) - Len(suffix) + 1, Len(s)) = suffix

\* The tool_result blocks of a raw record that reaches the grouper's user branch.
RawResultsOf(record) ==
    IF /\ IsDict(record)
       /\ ~should_skip(record)
       /\ Get(record, "type", E) = T("user")
       /\ IsDict(Get(record, "message", Dict(<<>>)))
       /\ Get(Get(record, "message", Dict(<<>>)), "role", E) = T("user")
       /\ IsList(Get(Get(record, "message", Dict(<<>>)), "content", E))
    THEN SelectSeq(Get(Get(record, "message", Dict(<<>>)), "content", E).xs,
                   IsToolResultBlock)
    ELSE <<>>

\* The tool_result blocks of the raw stream that carry a tool_use_id, in stream order.
RawResultsFor(id) ==
    SelectSeq(FlatMap(records, RawResultsOf),
              LAMBDA b : Get(b, "tool_use_id", E) = id)

\* The text of the last result of the raw stream for a tool_use_id, <<>> without one.
RawResultText(id) ==
    IF RawResultsFor(id) = <<>> \/ ~Truthy(id) THEN <<>>
    ELSE _clean_result_text(Strip(format_tool_result_content(
             Get(RawResultsFor(id)[Len(RawResultsFor(id))], "content", E))))

\* The header of a tool_use block.
HeaderOf(block) ==
    _tool_header(Get(block, "name", T("unknown")), Get(block, "input", Dict(<<>>)))

\* A segment of output lines begins with the header: as a line of its own, or
\* as the summary of a <details> block.
ShowsHeader(seg, header) ==
    /\ seg # <<>>
    /\ \/ seg[1] = header
       \/ /\ Len(seg) >= 2
          /\ seg[1] = <<"<details>">>
          /\ Contains(seg[2], _escape_html(header))

\* A segment shows a result text after its first line: every line of the text
\* ends a line of the segment, or the escaped text lies in one line of it.
ShowsResult(seg, text) ==
    \/ text = <<>>
    \/ \A i \in DOMAIN SplitNL(text) :
          \E j \in 2..Len(seg) : EndsWith(seg[j], SplitNL(text)[i])
    \/ \E j \in 2..Len(seg) : Contains(seg[j], _escape_html(text))

\* The tool_use blocks of the items, as <<item, block>> positions in order.
ToolUsePositions(its) ==
    FlatMap([i \in DOMAIN its |-> i],
            LAMBDA i :
                IF its[i].kind # "assistant" THEN <<>>
                ELSE SelectSeq([j \in DOMAIN its[i].blocks |-> <<i, j>>],
                               LAMBDA p : /\ IsDict(its[i].blocks[p[2]])
                                          /\ Get(its[i].blocks[p[2]], "type", E)
                                                = T("tool_use")))

---------------------------------------------------------------------------
(* C1: for every record stream and every Assistant Item holding N tool_use *)
(* blocks, the output holds the N calls in block order, in disjoint        *)
(* segments of lines; each segment begins with its call's header and       *)
(* shows, before the next call's segment begins, the result that the raw   *)
(* stream pairs with that call's id (the last tool_result block carrying   *)
(* the id), wherever in the raw stream the tool_result records sit.        *)
C1_CallsPairedInBlockOrder ==
    /\ \A k \in DOMAIN calls :
          LET c == calls[k]
              block == items[c.item].blocks[c.block]
              seg == SubSeq(lines, c.from, c.to)
          IN  /\ ShowsHeader(seg, HeaderOf(block))
              /\ ShowsResult(seg, RawResultText(Get(block, "id", E)))
              /\ k > 1 => calls[k - 1].to < c.from
    /\ pc = "render" \/ Rendered =>
          [k \in DOMAIN calls |-> <<calls[k].item, calls[k].block>>]
             = ToolUsePositions(SubSeq(items, 1, ri))

\* C1 witness: a message with two tool_use blocks has been rendered whose
\* first call's result precedes it in the raw stream and whose second call's
\* result follows it.
C1_Witness ==
    /\ Rendered
    /\ records = <<ResultOne, CallsRecord, ResultFive>>
    /\ Len(calls) = 3
    /\ calls[1].item = calls[2].item

---------------------------------------------------------------------------
(* C2: inline up to 4 lines, collapsed from 5 lines on                     *)

\* The block, the output lines and the indexed result of a rendered call.
BlockOf(c) == items[c.item].blocks[c.block]
SegmentOf(c) == SubSeq(lines, c.from, c.to)
PairedResult(c) == Lookup(tool_results_map, Get(BlockOf(c), "id", E)).content
CleanedResult(c) == _clean_result_text(PairedResult(c))

\* A line that begins with the result marker.
IsMarkerLine(l) == l # <<>> /\ l[1] \in {"  [hook]  ", "  [hook]  **Error:** "}

\* Inline: the header line, then result lines of which the first bears the marker.
RenderedInline(c) ==
    /\ SegmentOf(c)[1] = HeaderOf(BlockOf(c))
    /\ \E j \in 2..Len(SegmentOf(c)) : IsMarkerLine(SegmentOf(c)[j])

\* Collapsed: a <details> block.
RenderedCollapsed(c) ==
    \E j \in 1..Len(SegmentOf(c)) : SegmentOf(c)[j] = <<"<details>">>

\* The threshold rule for one rendered call.
ThresholdRule(c) ==
    IF Len(SplitNL(CleanedResult(c))) <= 4
    THEN RenderedInline(c) /\ ~RenderedCollapsed(c)
    ELSE RenderedCollapsed(c) /\ ~RenderedInline(c)

---------------------------------------------------------------------------
(* C3: skip-listed and meta records contribute nothing                     *)

\* The records the claim speaks of: one of the four kinds, or isMeta set.
IsSkipListedOrMeta(record) ==
    /\ IsDict(record)
    /\ \/ Get(record, "type", E) \in
             {T("file-history-snapshot"), T("queue-operation"), T("progress"), T("system")}
       \/ Truthy(Get(record, "isMeta", Null))

\* The same input with those records removed.
WithoutSkipped(recs) == SelectSeq(recs, LAMBDA r : ~IsSkipListedOrMeta(r))

\* The grouper's Item list together with its pending buffers, as items.
ItemsAndPending ==
    items \o PendingItems([groups |-> assistant_groups, order |-> assistant_order])

\* What main() leaves at the output path for a list of parsed records none of
\* which raises.
OutputFor(recs) ==
    IF recs = <<>> THEN (IF outFile0.exists THEN outFile0 ELSE File(<<>>))
    ELSE File(render_header(args) \o render_markdown(group_assistant_records(recs, addrs)))

\* While and after the grouper runs, its items and pending buffers are those
\* of the records consumed so far with the skip-listed and meta ones removed,
\* and the rendered body is the body of the input with those records removed.
SkippedContributeNothing ==
    /\ pc = "group" =>
          ItemsAndPending
             = group_assistant_records(WithoutSkipped(SubSeq(records, 1, gi)), addrs)
    /\ pc \in {"index", "render"} \/ Rendered =>
          items = group_assistant_records(WithoutSkipped(records), addrs)
    /\ Rendered =>
          JoinNL(lines)
             = render_markdown(group_assistant_records(WithoutSkipped(records), addrs))

(* C3 as stated: a skip-listed or meta record contributes no Item and no   *)
(* text, processing it leaves the grouper's buffers and Item list          *)
(* unchanged, and the output equals the output of the same input with      *)
(* those records removed.                                                  *)
C3_OutputAsWithoutSkipped ==
    /\ SkippedContributeNothing
    /\ Rendered => outFile = OutputFor(WithoutSkipped(records))

(* C3 as amended: a skip-listed or meta record contributes no Item and no  *)
(* text to the rendered body and processing it leaves the grouper's        *)
(* buffers and Item list unchanged: the Item sequence and the body equal   *)
(* those of the input with those records removed, and so does the output   *)
(* file unless removing them leaves no record at all (then the file holds  *)
(* the header, where the input without them leaves it empty or untouched). *)
C3_ItemsAndBodyAsWithoutSkipped ==
    /\ SkippedContributeNothing
    /\ Rendered /\ WithoutSkipped(records) # <<>> =>
          outFile = OutputFor(WithoutSkipped(records))
    /\ Rendered /\ WithoutSkipped(records) = <<>> =>
          outFile = File(render_header(args))

\* C3 witness: a meta record and a system record have been processed between
\* two parts of one assistant message, and the run has ended.
C3_Witness ==
    /\ Rendered
    /\ \E i, j \in DOMAIN records :
          /\ i < j
          /\ records[i] = AssistantOne
          /\ records[j] = AssistantTwo
          /\ \E k \in (i + 1)..(j - 1) : records[k] \in {MetaUser, SystemRecord}

---------------------------------------------------------------------------
(* C4: thinking blocks are never rendered                                  *)

IsThinkingBlock(block) == IsDict(block) /\ Get(block, "type", E) = T("thinking")

\* The items with the thinking blocks taken out of the assistant items.
WithoutThinking(its) ==
    [i \in DOMAIN its |->
        IF its[i].kind = "assistant"
        THEN [its[i] EXCEPT !.blocks = SelectSeq(@, LAMBDA b : ~IsThinkingBlock(b))]
        ELSE its[i]]

\* The texts of the thinking blocks of the items.
ThinkingTexts(its) ==
    UNION {{Get(b, "thinking", E).s :
               b \in {x \in Range(its[i].blocks) : IsThinkingBlock(x)}} :
           i \in {n \in DOMAIN its : its[n].kind = "assistant"}}

(* C4: for every input, no content of a thinking block of an assistant     *)
(* record is in the output: no output line contains the text of a          *)
(* thinking block, and the output is the output of the same items with the *)
(* thinking blocks removed, so a thinking block adds no line and changes   *)
(* nothing of what the blocks around it produce.                           *)
C4_ThinkingNeverRendered ==
    /\ \A j \in DOMAIN lines : \A t \in ThinkingTexts(items) : ~Contains(lines[j], t)
    /\ Rendered => JoinNL(lines) = render_markdown(WithoutThinking(items))

\* C4 witness: an assistant item with a thinking block between two text
\* blocks has been rendered.
C4_Witness ==
    /\ Rendered
    /\ \E i \in DOMAIN items :
          /\ items[i].kind = "assistant"
          /\ Len(items[i].blocks) = 3
          /\ IsTextBlock(items[i].blocks[1])
          /\ IsThinkingBlock(items[i].blocks[2])
          /\ IsTextBlock(items[i].blocks[3])

---------------------------------------------------------------------------
(* C5: no file-header line inside the diff fence of an Edit call           *)

IsEditCall(c) == Get(BlockOf(c), "name", T("unknown")) = T("Edit")

\* The lines of output text that the segment of a call makes up.
OutputLinesOf(c) == FlatMap(SegmentOf(c), SplitNL)

\* The positions of the opening and closing fence in the lines of a call:
\* the first line that is the opening fence, the first fence line after it.
OpeningFence(ls) ==
    IF \E i \in DOMAIN ls : ls[i] = <<"'''diff">>
    THEN CHOOSE i \in DOMAIN ls :
            /\ ls[i] = <<"'''diff">>
            /\ \A j \in 1..(i - 1) : ls[j] # <<"'''diff">>
    ELSE 0
ClosingFence(ls) ==
    IF /\ OpeningFence(ls) > 0
       /\ \E i \in (OpeningFence(ls) + 1)..Len(ls) : ls[i] = <<"'''">>
    THEN CHOOSE i \in (OpeningFence(ls) + 1)..Len(ls) :
            /\ ls[i] = <<"'''">>
            /\ \A j \in (OpeningFence(ls) + 1)..(i - 1) : ls[j] # <<"'''">>
    ELSE 0

BeginsWithThree(l, ch) == Len(l) >= 3 /\ l[1] = ch /\ l[2] = ch /\ l[3] = ch

(* C5: for every Edit tool call, whatever its old_string and new_string,   *)
(* an opening diff fence in its output is closed by a fence, and no line   *)
(* between the two starts with '---' or '+++'.                             *)
C5_NoFileHeaderInDiffFence ==
    \A k \in DOMAIN calls :
        IsEditCall(calls[k]) =>
            LET ls == OutputLinesOf(calls[k])
            IN  OpeningFence(ls) > 0 =>
                    /\ ClosingFence(ls) > 0
                    /\ \A i \in (OpeningFence(ls) + 1)..(ClosingFence(ls) - 1) :
                          /\ ~BeginsWithThree(ls[i], "-")
                          /\ ~BeginsWithThree(ls[i], "+")

\* C5 witness: an Edit call has been rendered with a fenced diff, and its
\* unified diff held, besides the two file-header lines, a removed and an
\* added line that start with '---' and '+++'.
C5_Witness ==
    /\ Rendered
    /\ \E k \in DOMAIN calls :
          /\ IsEditCall(calls[k])
          /\ ClosingFence(OutputLinesOf(calls[k])) > OpeningFence(OutputLinesOf(calls[k])) + 1
          /\ LET inp == Get(BlockOf(calls[k]), "input", Dict(<<>>))
                 diff == unified_diff(SplitLines(Get(inp, "old_string", E).s),
                                      SplitLines(Get(inp, "new_string", E).s))
             IN  Len(SelectSeq(diff, LAMBDA l : BeginsWithThree(l, "-"))) = 2
                 /\ Len(SelectSeq(diff, LAMBDA l : BeginsWithThree(l, "+"))) = 2

---------------------------------------------------------------------------
(* C6: the conversion is deterministic                                     *)

\* The ways CPython may place n live records: one address each, no two equal.
Placements(n) ==
    {ids \in [1..n -> Addr] : \A i, j \in 1..n : ids[i] = ids[j] => i = j}

(* C6: two runs of the converter on the same record sequence with the same *)
(* invocation parameters produce identical Item sequences and identical    *)
(* output text: the Items and the output of a run are those of every run   *)
(* on its input, wherever that run's records lie in memory, so id(record)  *)
(* never changes grouping or ordering.                                     *)
C6_Deterministic ==
    Rendered =>
        \A ids \in Placements(Len(addrs)) :
            /\ items = group_assistant_records(records, ids)
            /\ outFile = File(render_header(args)
                              \o render_markdown(group_assistant_records(records, ids)))

---------------------------------------------------------------------------
(* C7, C8: transcripts with lines that are no JSON text                    *)

\* The lines of the transcript that parse as JSON text, and their values.
ParseableLines == SelectSeq(transcript.lines, LAMBDA l : l.kind = "json")
ParseableRecords == [i \in DOMAIN ParseableLines |-> Parse(ParseableLines[i])]

\* The converter has returned from a run on a transcript file that exists.
Returned == pc = "exit" /\ transcript.exists

(* C7: when the transcript has zero parseable lines, then after the        *)
(* converter returns the output file exists, its content is exactly empty  *)
(* and the exit status is success, whatever was at the output path before: *)
(* nothing, or a file with any content.                                    *)
C7_EmptyOutputWhenNothingParses ==
    Returned /\ ParseableLines = <<>> =>
        /\ exitCode = 0
        /\ outFile = File(<<>>)

(* C8: a line that does not parse as JSON is dropped and processing        *)
(* continues: the converter exits successfully and the output is the       *)
(* output of the same input with the unparseable lines removed.            *)
C8_UnparseableLinesDropped ==
    Returned =>
        /\ exitCode = 0
        /\ records = ParseableRecords
        /\ outFile = OutputFor(ParseableRecords)

---------------------------------------------------------------------------
(* C9: records that are no mappings, fields of unexpected types            *)

\* Every line of the transcript that is not blank parses as a JSON value.
AllLinesJson ==
    \A i \in DOMAIN transcript.lines : transcript.lines[i].kind \in {"blank", "json"}

(* C9: for every transcript whose non-blank lines each parse as some JSON  *)
(* value, a number, a string or a list among them, or an object whose      *)
(* fields have unexpected types (a text that is no string, a tool_use      *)
(* input that is no mapping, an old_string or new_string that is no        *)
(* string, a missing content), the converter completes without an error    *)
(* exit and writes the output file.                                        *)
C9_CompletesOnEveryJsonValue ==
    Returned /\ AllLinesJson => exitCode = 0 /\ outFile.exists

---------------------------------------------------------------------------
(* C10: one Assistant Item per message id                                  *)

MessageOf(record) == Get(record, "message", Dict(<<>>))
MessageId(record) == Get(MessageOf(record), "id", E)
ContentOf(record) == Get(MessageOf(record), "content", List(<<>>))

\* An assistant record whose blocks the grouper takes up.
IsGrouped(record) ==
    /\ IsDict(record)
    /\ ~IsSkipListedOrMeta(record)
    /\ Get(record, "type", E) = T("assistant")
    /\ IsDict(MessageOf(record))
    /\ IsList(ContentOf(record))

\* A user record at which the grouper flushes and clears its buffers.
IsBoundary(record) ==
    /\ IsDict(record)
    /\ ~IsSkipListedOrMeta(record)
    /\ Get(record, "type", E) = T("user")
    /\ IsDict(MessageOf(record))

\* Every message id of the stream that is not empty is a string.
StringIds(recs) ==
    \A i \in DOMAIN recs :
        IsGrouped(recs[i]) /\ Truthy(MessageId(recs[i])) => IsStr(MessageId(recs[i]))

\* The stretch of the stream a record lies in: stretches end at user records.
StretchOf(recs, i) == Cardinality({j \in 1..(i - 1) : IsBoundary(recs[j])})

\* Two records carry the same non-empty message id.
SameId(recs, i, j) ==
    /\ IsGrouped(recs[i]) /\ IsGrouped(recs[j])
    /\ Truthy(MessageId(recs[i]))
    /\ MessageId(recs[i]) = MessageId(recs[j])

\* The blocks of the records among recs[from..to] that carry the id of
\* record i, in encounter order; for a record without id, its own blocks.
BlocksWithIdOf(recs, i, from, to) ==
    FlatMap([j \in 1..(to - from + 1) |-> from + j - 1],
            LAMBDA j : IF j = i \/ SameId(recs, i, j) THEN ContentOf(recs[j]).xs
                       ELSE <<>>)

AssistantItemsOf(its) == SelectSeq(its, LAMBDA item : item.kind = "assistant")

\* The grouper has returned.
GrouperReturned == pc \in {"index", "render"} \/ Rendered

(* C10 as stated: the Item sequence contains exactly one Assistant Item    *)
(* per distinct non-empty message id occurring in the stream, and that     *)
(* Item holds the content blocks of all records carrying that id in        *)
(* encounter order, also when user records occur between two records that  *)
(* share the id. (Checked on streams whose ids are strings and whose       *)
(* records with different ids hold different blocks.)                      *)
C10_OneItemPerId ==
    GrouperReturned /\ StringIds(records) =>
        \A i \in DOMAIN records :
            IsGrouped(records[i]) /\ Truthy(MessageId(records[i])) =>
                Cardinality({k \in DOMAIN items :
                    /\ items[k].kind = "assistant"
                    /\ items[k].blocks = BlocksWithIdOf(records, i, 1, Len(records))}) = 1

\* The first record of its stretch that carries its id.
LeadsGroup(recs, i) ==
    /\ IsGrouped(recs[i])
    /\ ~\E j \in 1..(i - 1) :
          StretchOf(recs, j) = StretchOf(recs, i) /\ SameId(recs, j, i)

\* The last record of the stretch of record i.
StretchEnd(recs, i) ==
    IF \E j \in i..Len(recs) : IsBoundary(recs[j])
    THEN CHOOSE j \in i..Len(recs) :
            IsBoundary(recs[j]) /\ \A k \in i..(j - 1) : ~IsBoundary(recs[k])
    ELSE Len(recs)

\* One Assistant Item per stretch and message id of the stretch, and one per
\* record without id, in the order in which the ids first occur.
ItemsPerStretchAndId(recs) ==
    FlatMap([i \in DOMAIN recs |-> i],
            LAMBDA i :
                IF LeadsGroup(recs, i)
                THEN <<AssistantItem(BlocksWithIdOf(recs, i, i, StretchEnd(recs, i)),
                                     Get(recs[i], "timestamp", E))>>
                ELSE <<>>)

(* C10 as amended: user records end a stretch of the stream; for a stream  *)
(* whose message ids are strings the Item sequence contains, for each      *)
(* stretch, exactly one Assistant Item per distinct non-empty message id   *)
(* occurring in the stretch, holding the blocks of all records of the      *)
(* stretch carrying that id in encounter order (and one Item per record    *)
(* without id), in the order in which the ids first occur; an id carried   *)
(* by records of two stretches has one Item in each.                       *)
C10_OneItemPerIdAndStretch ==
    GrouperReturned /\ StringIds(records) =>
        AssistantItemsOf(items) = ItemsPerStretchAndId(records)

\* C10 witness: the grouper has returned on a stream in which a user record
\* lies between two records that share a message id, and on one in which an
\* assistant record with another id lies between them.
C10_Witness ==
    /\ Rendered
    /\ StringIds(records)
    /\ \E i, j, k \in DOMAIN records :
          /\ i < j /\ j < k
          /\ SameId(records, i, k)
          /\ records[i] # records[k]
          /\ \/ IsBoundary(records[j]) /\ Len(AssistantItemsOf(items)) = 2
             \/ /\ IsGrouped(records[j]) /\ ~SameId(records, i, j)
                /\ Len(AssistantItemsOf(items)) = 2

---------------------------------------------------------------------------
(* C11: flushes of the pending assistant buffers                           *)

\* The grouper's pending buffers as the Items a flush emits.
Pending == PendingItems([groups |-> assistant_groups, order |-> assistant_order])

\* The grouper has just consumed a user record at which it flushes.
JustFlushedAtUser == pc = "group" /\ gi > 0 /\ IsBoundary(records[gi])

\* The grouper has just flushed at the end of the stream.
JustFlushedAtEnd == pc = "index"

FlushesBeforeUser ==
    pc = "group" /\ gi' = gi + 1 /\ IsBoundary(records[gi + 1]) =>
        /\ Len(items') >= Len(items) + Len(Pending)
        /\ SubSeq(items', 1, Len(items) + Len(Pending)) = items \o Pending
        /\ \A k \in (Len(items) + Len(Pending) + 1)..Len(items') :
              items'[k].kind \in {"user", "tool_result"}
        /\ assistant_groups' = <<>>
        /\ assistant_order' = <<>>

\* A step of the grouper over any other record emits nothing, and the key
\* of a buffer it opens goes to the end of assistant_order.
OpensInOrder ==
    pc = "group" /\ gi' = gi + 1 /\ ~IsBoundary(records[gi + 1]) =>
        /\ items' = items
        /\ \/ assistant_order' = assistant_order
           \/ /\ IsGrouped(records[gi + 1])
              /\ \E key \in {MessageId(records[gi + 1])} \cup {Num(a) : a \in Addr} :
                    /\ assistant_order' = Append(assistant_order, key)
                    /\ key \in DOMAIN assistant_groups'
                    /\ assistant_groups'[key].blocks = ContentOf(records[gi + 1]).xs
        /\ \A key \in Range(assistant_order) : key \in DOMAIN assistant_groups'

\* The step at the end of the stream emits every pending buffer, in order.
FlushesAtEnd ==
    pc = "group" /\ pc' = "index" =>
        /\ gi = Len(records)
        /\ items' = items \o Pending

\* Once the grouper has returned, the Items stay as they are.
ItemsStay == GrouperReturned => items' = items

---------------------------------------------------------------------------
(* C12: the Items of one user record                                       *)

\* The Items a step of the grouper added after the flushed pending Items.
ItemsOfRecord == SubSeq(items', Len(items) + Len(Pending) + 1, Len(items'))

\* The text segments of a content list that are not empty once trimmed.
TrimmedSegments(content) ==
    LET texts == SelectSeq(content.xs,
                           LAMBDA b : IsDict(b) /\ Get(b, "type", E) = T("text"))
        trimmed == [i \in DOMAIN texts |-> Strip(Get(texts[i], "text", E).s)]
    IN  SelectSeq(trimmed, LAMBDA t : t # <<>>)

\* The tool_result blocks of a content list, in block order.
ResultBlocks(content) ==
    SelectSeq(content.xs, LAMBDA b : IsDict(b) /\ Get(b, "type", E) = T("tool_result"))

\* What the claim says a user record yields.
ItemsClaimed(record) ==
    LET content == Get(MessageOf(record), "content", E)
        timestamp == Get(record, "timestamp", E)
    IN  IF IsStr(content)
        THEN IF Strip(content.s) # <<>>
             THEN <<[kind |-> "user", text |-> Strip(content.s), timestamp |-> timestamp]>>
             ELSE <<>>
        ELSE IF IsList(content)
        THEN (IF TrimmedSegments(content) # <<>>
              THEN <<[kind |-> "user", text |-> JoinNL(TrimmedSegments(content)),
                      timestamp |-> timestamp]>>
              ELSE <<>>)
             \o [i \in DOMAIN ResultBlocks(content) |->
                    [kind |-> "tool_result", tr |-> ResultBlocks(content)[i],
                     timestamp |-> timestamp]]
        ELSE <<>>

\* A step of the grouper over a user record (role user).
StepsOverUser ==
    /\ pc = "group"
    /\ gi' = gi + 1
    /\ IsBoundary(records[gi + 1])
    /\ Get(MessageOf(records[gi + 1]), "role", E) = T("user")

(* C12: a single user record with a structured content list yields at most *)
(* one User Item (its non-empty trimmed text segments joined by newline,   *)
(* only if a segment is non-empty), then one ToolResult Item per           *)
(* tool_result block in block order, the User Item first; a plain-string   *)
(* content yields one User Item only when non-empty after trimming.        *)
C12_ItemsOfUserRecord ==
    [][StepsOverUser =>
          /\ ItemsOfRecord = ItemsClaimed(records[gi + 1])
          /\ Cardinality({k \in DOMAIN ItemsOfRecord : ItemsOfRecord[k].kind = "user"}) <= 1
          /\ \A k \in DOMAIN ItemsOfRecord :
                ItemsOfRecord[k].kind = "user" => k = 1]_vars

\* C12 witness: a user record with text segments around two tool results
\* has yielded a User Item of two segments and two ToolResult Items, and a
\* record with a blank plain string has yielded nothing.
C12_Witness ==
    /\ GrouperReturned
    /\ records = <<UserBlankString, UserMixed>>
    /\ Len(items) = 3
    /\ items[1].kind = "user"
    /\ items[1].text = <<"a", "\n", "b">>
    /\ items[2].kind = "tool_result" /\ items[3].kind = "tool_result"

---------------------------------------------------------------------------
(* C13: the Tool-Result Index is last-write-wins                           *)

\* The positions of the ToolResult Items that carry a tool_use_id.
ResultItemsFor(id) ==
    {k \in DOMAIN items :
        items[k].kind = "tool_result" /\ Get(items[k].tr, "tool_use_id", E) = id}

\* The tool_use_ids that ToolResult Items carry.
ResultIds ==
    {Get(items[k].tr, "tool_use_id", E) :
        k \in {n \in DOMAIN items : items[n].kind = "tool_result"}}

\* The last ToolResult Item, in Item order, that carries the id.
LastResultFor(id) ==
    items[CHOOSE k \in ResultItemsFor(id) : \A n \in ResultItemsFor(id) : n <= k].tr

LastContentFor(id) ==
    Strip(format_tool_result_content(Get(LastResultFor(id), "content", E)))
LastFlagFor(id) == Get(LastResultFor(id), "is_error", Bool(FALSE))

\* The index pass has been made.
Indexed == pc = "render" \/ Rendered

(* C13: when several ToolResult Items carry the same tool_use_id, after    *)
(* the index pass the entry of that id holds the content and the error     *)
(* flag of the last such Item in Item order, every tool_use block with     *)
(* that id is rendered with that last result, and the duplicate id causes  *)
(* no error.                                                               *)
C13_LastWriteWins ==
    /\ Indexed =>
          \A id \in ResultIds :
              Truthy(id) =>
                  /\ id \in DOMAIN tool_results_map
                  /\ tool_results_map[id].content = LastContentFor(id)
                  /\ tool_results_map[id].is_error = LastFlagFor(id)
    /\ \A k \in DOMAIN calls :
          LET id == Get(BlockOf(calls[k]), "id", E)
          IN  Truthy(id) /\ id \in ResultIds /\ ~IsEditCall(calls[k]) =>
                  SegmentOf(calls[k])
                     = _render_tool_with_result(<<>>, HeaderOf(BlockOf(calls[k])),
                                                LastContentFor(id), LastFlagFor(id))
    /\ pc = "exit" /\ (\E id \in ResultIds : Cardinality(ResultItemsFor(id)) > 1) =>
          exitCode = 0

\* C13 witness: three ToolResult Items carry one id, the last of them with
\* another content and error flag than the first, and a tool_use block with
\* that id has been rendered.
C13_Witness ==
    /\ Rendered
    /\ \E id \in ResultIds :
          /\ Cardinality(ResultItemsFor(id)) = 3
          /\ tool_results_map[id].content = <<"second">>
          /\ tool_results_map[id].is_error = Bool(TRUE)
          /\ \E k \in DOMAIN calls : Get(BlockOf(calls[k]), "id", E) = id

---------------------------------------------------------------------------
(* C14: the Error marker follows the is_error flag                         *)

\* The result the index pairs with a call, if any.
HasPairedResult(c) == Get(BlockOf(c), "id", E) \in DOMAIN tool_results_map
PairedFlag(c) == Lookup(tool_results_map, Get(BlockOf(c), "id", E)).is_error

\* A line carries the Error marker: the bold prefix of an inline result, or
\* the marker at the head of a collapsed summary.
IsErrorMarked(l) ==
    \/ Len(l) >= 1 /\ l[1] = "  [hook]  **Error:** "
    \/ Len(l) >= 2 /\ l[1] = "<summary>" /\ l[2] = "<b>Error:</b> "

HasErrorMarker(seg) == \E j \in DOMAIN seg : IsErrorMarked(seg[j])

(* C14: for every tool call whose paired result has is_error set, the      *)
(* rendered output of that call carries an Error marker, with or without   *)
(* the wrapper tag in the result text and whatever that text is, also a    *)
(* text that is empty or becomes empty once the wrapper tags are stripped; *)
(* and a result without is_error never gets the marker, even if its text   *)
(* contains the wrapper tag.                                               *)
C14_ErrorMarkerFollowsFlag ==
    \A k \in DOMAIN calls :
        HasPairedResult(calls[k]) =>
            (Truthy(PairedFlag(calls[k])) <=> HasErrorMarker(SegmentOf(calls[k])))

---------------------------------------------------------------------------
(* Result texts that carry the wrapper tag                                 *)

\* "<tool_<tool_use_error>use_error>": removing the inner tag leaves a tag.
NestedOpenTag == <<"<", "tool_">> \o OpenTag \o <<"use_error", ">">>
NestedCloseTag == <<"<", "/", "tool_">> \o CloseTag \o <<"use_error", ">">>

TaggedText == OpenTag \o <<"boom">> \o CloseTag
NestedText == NestedOpenTag \o <<"boom">> \o NestedCloseTag

TagCalls ==
    Record("assistant",
           AssistantMessage(T("m6"),
               <<ToolUse("t6", "Grep", Dict([pattern |-> T("TODO")])),
                 ToolUse("t7", "Edit",
                         Dict([file_path |-> T("/tmp/u.py"),
                               old_string |-> T("wrold"),
                               new_string |-> T("world")])),
                 ToolUse("t8", "Bash",
                         Dict([command |-> Str(<<"make", " ", "&", "&", " ", "test">>)]))>>))
TaggedResults ==
    Record("user",
           UserMessage(List(<<ToolResult("t6", Str(TaggedText), TRUE),
                              ToolResult("t7", Str(TaggedText), TRUE),
                              ToolResult("t8", Str(TaggedText \o <<"\n">> \o TextOfLines(5)),
                                         FALSE)>>)))
NestedResults ==
    Record("user",
           UserMessage(List(<<ToolResult("t6", Str(NestedText), TRUE),
                              ToolResult("t7", List(<<TextBlock(Str(NestedText))>>), FALSE)>>)))
NestedLong ==
    Record("user",
           UserMessage(List(<<ToolResult("t8", Str(NestedText \o <<"\n">> \o TextOfLines(5)),
                                         TRUE),
                              ToolResult("t6", Str(TextOfLines(5)), FALSE)>>)))

TagLines ==
    {JsonLine(TagCalls), JsonLine(TaggedResults), JsonLine(NestedResults),
     JsonLine(NestedLong), JsonLine(UserHello)}

InitTags == InitWith(TagLines, {ArgsSession}, {Absent})

SpecTags == InitTags /\ [][Next]_vars

---------------------------------------------------------------------------
(* C15: for every tool result text, the rendered result (inline or         *)
(* collapsed, of an Edit call or of any other call) contains neither the   *)
(* literal <tool_use_error> nor </tool_use_error>, also when removing one  *)
(* occurrence of a tag brings a new occurrence into being.                 *)

\* The lines of a call's segment that show its result: from the line that
\* bears the result marker on, or the <pre><code> line of a collapsed result.
IsResultLine(seg, j) ==
    \/ \E i \in 1..j : IsMarkerLine(seg[i])
    \/ seg[j] # <<>> /\ seg[j][1] = "<pre><code>"

ShowsWrapperTag(c) ==
    \E j \in DOMAIN SegmentOf(c) :
        /\ IsResultLine(SegmentOf(c), j)
        /\ Contains(SegmentOf(c)[j], OpenTag) \/ Contains(SegmentOf(c)[j], CloseTag)

C15_NoWrapperTagInResult ==
    \A k \in DOMAIN calls : HasPairedResult(calls[k]) => ~ShowsWrapperTag(calls[k])

\* The same for result texts in which no tag lies around another tag.
ResultHasNestedTag(c) ==
    \/ Contains(PairedResult(c), NestedOpenTag)
    \/ Contains(PairedResult(c), NestedCloseTag)

C15_PlainTagsStripped ==
    \A k \in DOMAIN calls :
        (HasPairedResult(calls[k]) /\ ~ResultHasNestedTag(calls[k]))
            => ~ShowsWrapperTag(calls[k])

---------------------------------------------------------------------------
(* C16: when the transcript path does not exist, the converter ends with   *)
(* a failure exit status and neither creates nor modifies the output file  *)
(* nor creates its parent directory.                                       *)

\* Every step of a run on a missing transcript ends the run with status 1
\* and leaves the output path and its directory as they were.
C16_MissingTranscriptFails ==
    [][~transcript.exists =>
          /\ pc' = "exit"
          /\ exitCode' = 1
          /\ outFile' = outFile
          /\ outDir' = outDir]_vars

\* A run on a missing transcript has ended; the output path is as before the run.
C16_OutputUntouched ==
    (~transcript.exists /\ pc = "exit") => (exitCode = 1 /\ outFile = outFile0)

C16_Witness ==
    /\ ~transcript.exists
    /\ pc = "exit"
    /\ exitCode = 1
    /\ ~outFile.exists
    /\ ~outDir

---------------------------------------------------------------------------
(* The hooks: stop-log.py and subagent-stop-log.py.  Each hook is a        *)
(* process of its own; the two differ in the key under which they look     *)
(* for the transcript path, in the identifiers they slice and in the name  *)
(* of the log file.  A writer process appends to the transcript, and may   *)
(* remove it, while the hook runs.                                         *)

\* range(10): the polls of the size of the transcript.
MaxPolls == 10

\* The largest size the writer lets the transcript reach.
MaxSize == 9

\* hook_input.get("transcript_path", "") / hook_input.get("agent_transcript_path", "")
PathKey(h) == IF h = "Stop" THEN "transcript_path" ELSE "agent_transcript_path"

\* json.load(sys.stdin) raises json.JSONDecodeError or ValueError
\* (UnicodeDecodeError is a ValueError): main returns.
StdinRejected(inp) == inp.kind \in {"blank", "bad", "undecodable"}

\* main raises before it reaches the polls: RecursionError from json.load,
\* AttributeError from hook_input.get on a value that is no dict.
StartRaises(inp) ==
    \/ inp.kind = "deep"
    \/ inp.kind = "json" /\ ~IsDict(inp.value)

\* os.path.isfile(transcript_path) for a path that is a string.
IsFile(h, path) == IsStr(path) /\ tfile[h].exists

\* x[:8]
Sliceable(v) == v.ty \in {"str", "list"}

\* session_id, agent_id and agent_type as main reads them.
SessionIdOf(inp) == Get(inp.value, "session_id", T("unknown"))
AgentIdOf(inp) == Get(inp.value, "agent_id", T("unknown"))
AgentTypeOf(inp) == Get(inp.value, "agent_type", T("subagent"))

\* session_id[:8] (and agent_id[:8] in the SubagentStop hook) raises TypeError.
SliceRaises(h, inp) ==
    \/ ~Sliceable(SessionIdOf(inp))
    \/ h = "SubagentStop" /\ ~Sliceable(AgentIdOf(inp))

\* subprocess.run raises TypeError when an argument is no string.
SpawnRaises(h, inp, local_ts) ==
    \/ ~IsStr(SessionIdOf(inp))
    \/ ~IsStr(local_ts)
    \/ h = "SubagentStop" /\ (~IsStr(AgentIdOf(inp)) \/ ~IsStr(AgentTypeOf(inp)))

\* The exit status of the hook: "try: main() except Exception: pass", then
\* sys.exit(0).
\* The exit status when the exception is let through.
ExitStatus_Propagates(raised) == IF raised THEN 1 ELSE 0

ExitStatus(raised) == 0

\* The hook ends: main has returned or raised.
HookEnds(h, raised) ==
    /\ hpc' = [hpc EXCEPT ![h] = "exit"]
    /\ hexit' = [hexit EXCEPT ![h] = ExitStatus(raised)]

\* main, up to the loop of polls.
HookStart(h) ==
    /\ hpc[h] = "start"
    /\ LET inp == hook_stdin[h]
       IN  IF StdinRejected(inp) THEN HookEnds(h, FALSE)
           ELSE IF StartRaises(inp) THEN HookEnds(h, TRUE)
           ELSE LET transcript_path == Get(inp.value, PathKey(h), E)
                IN  IF ~Truthy(transcript_path) \/ ~IsFile(h, transcript_path)
                    THEN HookEnds(h, FALSE)
                    ELSE hpc' = [hpc EXCEPT ![h] = "poll"] /\ hexit' = hexit
    /\ UNCHANGED <<hook_stdin, tfile, prev_size, polls, first_ts, stamp, logsDir, errLog,
                   errLog0, err_f, wrote>>
    /\ UNCHANGED <<converterVars, installVars>>

\* os.path.getsize(transcript_path), 0 on OSError.
SizeSeen(h) == IF tfile[h].exists THEN tfile[h].size ELSE 0

\* One iteration of the loop of polls.
\* Poll that leaves the loop after the first poll.
Poll_OnePoll(h) ==
    /\ hpc[h] = "poll"
    /\ polls' = [polls EXCEPT ![h] = Append(@, SizeSeen(h))]
    /\ prev_size' = [prev_size EXCEPT ![h] = SizeSeen(h)]
    /\ hpc' = [hpc EXCEPT ![h] = "stamp"]
    /\ UNCHANGED <<hook_stdin, hexit, tfile, first_ts, stamp, logsDir, errLog, errLog0, err_f,
                   wrote>>
    /\ UNCHANGED <<converterVars, installVars>>

\* Poll whose loop goes on until two polls see the same size.
Poll_NoLimit(h) ==
    /\ hpc[h] = "poll"
    /\ LET curr_size == SizeSeen(h)
       IN  /\ polls' = [polls EXCEPT ![h] = Append(@, curr_size)]
           /\ IF curr_size = prev_size[h]
              THEN /\ hpc' = [hpc EXCEPT ![h] = "stamp"]
                   /\ prev_size' = prev_size
              ELSE /\ prev_size' = [prev_size EXCEPT ![h] = curr_size]
                   /\ hpc' = hpc
    /\ UNCHANGED <<hook_stdin, hexit, tfile, first_ts, stamp, logsDir, errLog, errLog0, err_f,
                   wrote>>
    /\ UNCHANGED <<converterVars, installVars>>

Poll(h) ==
    /\ hpc[h] = "poll"
    /\ LET curr_size == SizeSeen(h)
       IN  /\ polls' = [polls EXCEPT ![h] = Append(@, curr_size)]
           /\ IF curr_size = prev_size[h]
              THEN /\ hpc' = [hpc EXCEPT ![h] = "stamp"]
                   /\ prev_size' = prev_size
              ELSE /\ prev_size' = [prev_size EXCEPT ![h] = curr_size]
                   /\ hpc' = [hpc EXCEPT ![h] =
                                 IF Len(polls[h]) + 1 = MaxPolls THEN "stamp" ELSE "poll"]
    /\ UNCHANGED <<hook_stdin, hexit, tfile, first_ts, stamp, logsDir, errLog, errLog0, err_f,
                   wrote>>
    /\ UNCHANGED <<converterVars, installVars>>

\* re.match(r"(\d{4}-\d{2}-\d{2})T(\d{2}):(\d{2}):(\d{2})", start_ts) and
\* datetime.fromisoformat accept the timestamp.
WellFormedStamp(ts) ==
    /\ Len(ts) = 11
    /\ ts[2] = "T" /\ ts[5] = ":" /\ ts[8] = ":" /\ ts[11] = "Z"
    /\ \A i \in {3, 4, 6, 7, 9, 10} : ts[i] \in Digits

\* local_dt.strftime("%H%M") when TZ is UTC: the digits of the hour and of
\* the minute.
LocalHHMM(ts) == <<ts[3], ts[4], ts[6], ts[7]>>

\* date_str, time_part and local_ts (lines 58-77).
Stamped(start_ts, tz_ok) ==
    IF Truthy(start_ts)
    THEN IF IsStr(start_ts) /\ WellFormedStamp(start_ts.s) /\ tz_ok
         THEN [date_str |-> <<start_ts.s[1]>>, time_part |-> LocalHHMM(start_ts.s),
               local_ts |-> Str(SubSeq(start_ts.s, 1, 10) \o <<"+00:00">>)]
         ELSE [date_str |-> <<"today">>, time_part |-> <<"0", "0", "0", "0">>,
               local_ts |-> start_ts]
    ELSE [date_str |-> <<"today">>, time_part |-> <<"0", "0", "0", "0">>, local_ts |-> E]

\* main, lines 43-77: the first timestamp of the transcript (none when the
\* file cannot be opened) and its conversion; ZoneInfo(TZ) may fail.
Stamp(h) ==
    /\ hpc[h] = "stamp"
    /\ \E tz_ok \in BOOLEAN :
          LET start_ts == IF tfile[h].exists THEN first_ts[h] ELSE Null
          IN  stamp' = [stamp EXCEPT ![h] = Stamped(start_ts, tz_ok)]
    /\ hpc' = [hpc EXCEPT ![h] = "mkdir"]
    /\ UNCHANGED <<hook_stdin, hexit, tfile, prev_size, polls, first_ts, logsDir, errLog,
                   errLog0, err_f, wrote>>
    /\ UNCHANGED <<converterVars, installVars>>

\* os.makedirs(".claude/logs", exist_ok=True), which may fail when the
\* directory is not there, then the file names (lines 79-84).
MakeDirs(h) ==
    /\ hpc[h] = "mkdir"
    /\ \E made \in (IF logsDir THEN {TRUE} ELSE BOOLEAN) :
          IF ~made THEN HookEnds(h, TRUE) /\ logsDir' = logsDir
          ELSE /\ logsDir' = TRUE
               /\ IF SliceRaises(h, hook_stdin[h]) THEN HookEnds(h, TRUE)
                  ELSE hpc' = [hpc EXCEPT ![h] = "open"] /\ hexit' = hexit
    /\ UNCHANGED <<hook_stdin, tfile, prev_size, polls, first_ts, stamp, errLog, errLog0,
                   err_f, wrote>>
    /\ UNCHANGED <<converterVars, installVars>>

\* open(error_log, "a"): creates the file when it is not there; may fail.
OpenErrorLog(h) ==
    /\ hpc[h] = "open"
    /\ \E opened \in BOOLEAN :
          IF opened
          THEN /\ errLog' = IF errLog.exists THEN errLog ELSE File(<<>>)
               /\ err_f' = [err_f EXCEPT ![h] = "open"]
               /\ hpc' = [hpc EXCEPT ![h] = "run"]
               /\ hexit' = hexit
          ELSE HookEnds(h, TRUE) /\ UNCHANGED <<errLog, err_f>>
    /\ UNCHANGED <<hook_stdin, tfile, prev_size, polls, first_ts, stamp, logsDir, errLog0,
                   wrote>>
    /\ UNCHANGED <<converterVars, installVars>>

\* What a run of the converter leaves: its exit status and what it wrote to
\* stderr.  The converter writes to stderr when the transcript is not found
\* (exit status 1) and when an exception is not caught (traceback, exit
\* status 1), and not otherwise.
ConverterOutcomes(h) ==
    IF ~tfile[h].exists
    THEN {[exitCode |-> 1, stderr |-> <<"Error: Transcript file not found", "\n">>]}
    ELSE {[exitCode |-> 0, stderr |-> <<>>],
          [exitCode |-> 1, stderr |-> <<"Traceback", "\n">>]}

\* subprocess.run(..., stderr=err_f) inside "with open(error_log, "a") as
\* err_f", and the closing of err_f.  What is written through a handle on a
\* removed file is lost.
RunConverter(h) ==
    /\ hpc[h] = "run"
    /\ IF SpawnRaises(h, hook_stdin[h], stamp[h].local_ts)
       THEN /\ HookEnds(h, TRUE)
            /\ UNCHANGED <<errLog, wrote>>
       ELSE \E out \in ConverterOutcomes(h) :
               /\ errLog' = IF err_f[h] = "open" THEN File(errLog.text \o out.stderr)
                            ELSE errLog
               /\ wrote' = [wrote EXCEPT ![h] =
                               IF out.stderr = <<>> THEN "nothing" ELSE "errors"]
               /\ hpc' = [hpc EXCEPT ![h] = "cleanup"]
               /\ hexit' = hexit
    /\ err_f' = [err_f EXCEPT ![h] = "closed"]
    /\ UNCHANGED <<hook_stdin, tfile, prev_size, polls, first_ts, stamp, logsDir, errLog0>>
    /\ UNCHANGED <<converterVars, installVars>>

\* Lines 100-105: the error log is removed if it is empty; os.remove may
\* fail on a file that was there before the hooks ran.
\* Cleanup that leaves the error log where it is.
Cleanup_KeepsLog(h) ==
    /\ hpc[h] = "cleanup"
    /\ HookEnds(h, FALSE)
    /\ UNCHANGED <<hook_stdin, tfile, prev_size, polls, first_ts, stamp, logsDir, errLog,
                   errLog0, err_f, wrote>>
    /\ UNCHANGED <<converterVars, installVars>>

Cleanup(h) ==
    /\ hpc[h] = "cleanup"
    /\ IF errLog.exists /\ errLog.text = <<>>
       THEN \E removed \in (IF errLog0.exists THEN BOOLEAN ELSE {TRUE}) :
               IF removed
               THEN /\ errLog' = Absent
                    /\ err_f' = [g \in Hooks |-> IF err_f[g] = "open" THEN "unlinked"
                                                 ELSE err_f[g]]
               ELSE UNCHANGED <<errLog, err_f>>
       ELSE UNCHANGED <<errLog, err_f>>
    /\ HookEnds(h, FALSE)
    /\ UNCHANGED <<hook_stdin, tfile, prev_size, polls, first_ts, stamp, logsDir, errLog0,
                   wrote>>
    /\ UNCHANGED <<converterVars, installVars>>

\* Another process removes the transcript once the hook has found it.
TranscriptRemoved(h) ==
    /\ hpc[h] \in {"poll", "stamp", "mkdir", "open", "run"}
    /\ tfile[h].exists
    /\ tfile' = [tfile EXCEPT ![h].exists = FALSE]
    /\ UNCHANGED <<hook_stdin, hpc, hexit, prev_size, polls, first_ts, stamp, logsDir,
                   errLog, errLog0, err_f, wrote>>
    /\ UNCHANGED <<converterVars, installVars>>

\* The writer appends to the transcript; sizes after the last poll are
\* never read.
WriterAppends(h) ==
    /\ hpc[h] \in {"start", "poll"}
    /\ tfile[h].exists
    /\ tfile[h].size < MaxSize
    /\ tfile' = [tfile EXCEPT ![h].size = @ + 1]
    /\ UNCHANGED <<hook_stdin, hpc, hexit, prev_size, polls, first_ts, stamp, logsDir,
                   errLog, errLog0, err_f, wrote>>
    /\ UNCHANGED <<converterVars, installVars>>

HookNext ==
    \/ \E h \in Hooks : HookStart(h)
    \/ \E h \in Hooks : Poll(h)
    \/ \E h \in Hooks : Stamp(h)
    \/ \E h \in Hooks : MakeDirs(h)
    \/ \E h \in Hooks : OpenErrorLog(h)
    \/ \E h \in Hooks : RunConverter(h)
    \/ \E h \in Hooks : Cleanup(h)
    \/ \E h \in Hooks : TranscriptRemoved(h)

PollNext == HookNext \/ \E h \in Hooks : WriterAppends(h)

\* The converter does not run as a process of its own.
ConverterOff ==
    /\ transcript = [exists |-> FALSE, lines |-> <<>>]
    /\ args = ArgsNone
    /\ outFile = Absent
    /\ outFile0 = Absent
    /\ outDir = TRUE
    /\ pc = "off"
    /\ exitCode = -1
    /\ records = <<>>
    /\ li = 0
    /\ addrs = <<>>
    /\ gi = 0
    /\ items = <<>>
    /\ assistant_groups = <<>>
    /\ assistant_order = <<>>
    /\ tool_results_map = <<>>
    /\ ri = 0
    /\ lines = <<>>
    /\ calls = <<>>
    /\ runs = 0

\* What the hooks may find on stdin.
HookInput(key, session_id) ==
    JsonLine(Dict([k \in {key, "session_id"} |->
                      IF k = key THEN T("/p/t.jsonl") ELSE session_id]))
LongSessionId == Str(<<"a", "b", "c", "d", "e", "f", "0", "1", "2", "3">>)
NoPathInput == JsonLine(Dict([session_id |-> LongSessionId]))
ListInput == JsonLine(List(<<>>))

HookInputs ==
    {BlankLine, BadLine, UndecodableLine, DeepLine, ListInput, NoPathInput,
     HookInput("transcript_path", LongSessionId),
     HookInput("agent_transcript_path", LongSessionId),
     HookInput("transcript_path", Num(5)),
     HookInput("agent_transcript_path", List(<<Num(1)>>))}

\* The first timestamp of a transcript: none, well-formed, ill-formed, a number.
GoodStamp == Str(<<"2026-02-16", "T", "1", "0", ":", "3", "0", ":", "0", "0", "Z">>)
FirstStamps == {Null, GoodStamp, T("yesterday"), Num(5)}

\* The error log before the hooks run: absent, empty, holding earlier errors.
ErrorLogs == {Absent, File(<<>>), File(<<"old error", "\n">>)}

\* One hook starts, the other does not run; the transcript is of SizeSet
\* sizes.
InitHook(h, InputSet, SizeSet) ==
    /\ ConverterOff
    /\ InstallerOff
    /\ hook_stdin \in [Hooks -> InputSet]
    /\ \A g \in Hooks \ {h} : hook_stdin[g] = BlankLine
    /\ hpc = [g \in Hooks |-> IF g = h THEN "start" ELSE "off"]
    /\ hexit = [g \in Hooks |-> -1]
    /\ tfile \in [Hooks -> [exists : BOOLEAN, size : SizeSet]]
    /\ \A g \in Hooks \ {h} : tfile[g] = [exists |-> FALSE, size |-> 0]
    /\ ~tfile[h].exists => tfile[h].size = 0
    /\ prev_size = [g \in Hooks |-> -1]
    /\ polls = [g \in Hooks |-> <<>>]
    /\ first_ts \in [Hooks -> FirstStamps]
    /\ \A g \in Hooks \ {h} : first_ts[g] = Null
    /\ stamp = [g \in Hooks |-> Null]
    /\ logsDir \in BOOLEAN
    /\ errLog \in ErrorLogs
    /\ errLog.exists => logsDir
    /\ errLog0 = errLog
    /\ err_f = [g \in Hooks |-> "closed"]
    /\ wrote = [g \in Hooks |-> "none"]

\* Either hook, on every input, with a transcript that is not written to.
InitHooks == \E h \in Hooks : InitHook(h, HookInputs \cup {BlankLine}, {0, 1})

SpecHooks == InitHooks /\ [][HookNext]_vars

\* Either hook on a transcript that a writer appends to.
InitPoll ==
    \E h \in Hooks :
        /\ InitHook(h, {HookInput(PathKey(h), LongSessionId), BlankLine}, {0, 1})
        /\ hook_stdin[h] # BlankLine
        /\ tfile[h].exists
        /\ first_ts[h] = GoodStamp
        /\ errLog = Absent

SpecPoll == InitPoll /\ [][PollNext]_vars

\* Both hooks start in the same project directory, as when a subagent and
\* the session stop together: each on a transcript of its own that is there
\* and is not written to; the error log is absent or empty.
InitBoth ==
    /\ ConverterOff
    /\ InstallerOff
    /\ hook_stdin = [h \in Hooks |-> HookInput(PathKey(h), LongSessionId)]
    /\ hpc = [h \in Hooks |-> "start"]
    /\ hexit = [h \in Hooks |-> -1]
    /\ tfile = [h \in Hooks |-> [exists |-> TRUE, size |-> 1]]
    /\ prev_size = [h \in Hooks |-> -1]
    /\ polls = [h \in Hooks |-> <<>>]
    /\ first_ts = [h \in Hooks |-> GoodStamp]
    /\ stamp = [h \in Hooks |-> Null]
    /\ logsDir \in BOOLEAN
    /\ errLog \in {Absent, File(<<>>)}
    /\ errLog.exists => logsDir
    /\ errLog0 = errLog
    /\ err_f = [h \in Hooks |-> "closed"]
    /\ wrote = [h \in Hooks |-> "none"]

SpecBoth == InitBoth /\ [][HookNext]_vars

\* The steps of one hook.
HookStep(h) ==
    \/ HookStart(h)
    \/ Poll(h)
    \/ Stamp(h)
    \/ MakeDirs(h)
    \/ OpenErrorLog(h)
    \/ RunConverter(h)
    \/ Cleanup(h)

\* A hook is a running process: time.sleep(0.2) returns, every system call
\* returns or raises, and the converter it waits for ends, so a hook that
\* can take a step takes it.  Nothing is assumed of the writer.
\* The transcript is empty and .claude/logs is not there when the hook starts.
InitFair ==
    /\ InitPoll
    /\ ~logsDir
    /\ \A h \in Hooks : tfile[h].exists => tfile[h].size = 0

FairPoll == InitFair /\ [][PollNext]_vars /\ \A h \in Hooks : WF_vars(HookStep(h))

---------------------------------------------------------------------------
(* C17: the Stop and SubagentStop hooks always exit with status 0, on      *)
(* every path: invalid or empty JSON on stdin, a missing or non-existent   *)
(* transcript path, a failure of the timestamp or time-zone conversion, a  *)
(* failure to create the log directory or to open the error log, and any   *)
(* failure exit of the converter subprocess.                               *)

HookEnded(h) == hpc[h] = "exit"

C17_HooksExitZero ==
    \A h \in Hooks :
        /\ hexit[h] \in {-1, 0}
        /\ HookEnded(h) <=> hexit[h] = 0

\* The paths by which a hook has ended.
EndedOnBadStdin(h) == HookEnded(h) /\ StdinRejected(hook_stdin[h])
EndedOnRaise(h) ==
    /\ HookEnded(h)
    /\ \/ StartRaises(hook_stdin[h])
       \/ ~StdinRejected(hook_stdin[h]) /\ polls[h] # <<>> /\ wrote[h] = "none"
EndedOnConverterFailure(h) == HookEnded(h) /\ wrote[h] = "errors"

\* A hook has ended after its converter failed on a transcript whose
\* timestamp could not be converted.
C17_Witness ==
    \E h \in Hooks :
        /\ EndedOnConverterFailure(h)
        /\ stamp[h].time_part = <<"0", "0", "0", "0">>
        /\ Truthy(first_ts[h])
        /\ hexit[h] = 0

---------------------------------------------------------------------------
(* C18: with a writer appending to the transcript while the hook runs,     *)
(* the hook invokes the converter only after the size of the transcript    *)
(* has stabilized, that is only after two consecutive polls returned the   *)
(* same size; it never invokes the converter while every pair of           *)
(* consecutive polls so far differed.                                      *)

\* The hook's converter has been invoked.
ConverterInvoked(h) == wrote[h] # "none"

\* Two consecutive polls returned the same size.
StableSeen(h) == \E i \in 1..(Len(polls[h]) - 1) : polls[h][i] = polls[h][i + 1]

C18_ConverterOnlyAfterStableSize ==
    \A h \in Hooks : ConverterInvoked(h) => StableSeen(h)

\* The converter is invoked only after two consecutive polls returned the
\* same size or after MaxPolls polls; the polls end with the first two
\* consecutive polls of the same size.
C18_StableOrRetriesExhausted ==
    \A h \in Hooks :
        /\ ConverterInvoked(h) => (StableSeen(h) \/ Len(polls[h]) = MaxPolls)
        /\ Len(polls[h]) <= MaxPolls
        /\ \A i \in 1..(Len(polls[h]) - 2) : polls[h][i] # polls[h][i + 1]

\* The writer appended between polls, the size then stabilized and the
\* converter has been invoked.
C18_Witness ==
    \E h \in Hooks :
        /\ ConverterInvoked(h)
        /\ StableSeen(h)
        /\ Len(polls[h]) >= 4
        /\ Len(polls[h]) < MaxPolls

---------------------------------------------------------------------------
(* C19: after any hook run in which the converter subprocess wrote nothing *)
(* to stderr, the file .claude/logs/.converter-errors.log does not exist,  *)
(* whatever the state of that file before the run (absent, empty, or       *)
(* holding errors of an earlier run).                                      *)

\* The hook has ended after a converter that wrote nothing to stderr.
EndedQuietly(h) == HookEnded(h) /\ wrote[h] = "nothing"

C19_NoErrorLogAfterQuietRun ==
    \A h \in Hooks : EndedQuietly(h) => ~errLog.exists

\* After such a run the error log is not there if it was absent before the
\* run; if it was empty before the run it has been removed unless os.remove
\* failed; if it held errors of an earlier run it is there as it was.
C19_ErrorLogAfterQuietRun ==
    \A h \in Hooks :
        EndedQuietly(h) =>
            IF ~errLog0.exists THEN ~errLog.exists
            ELSE IF errLog0.text = <<>> THEN errLog \in {Absent, errLog0}
            ELSE errLog = errLog0

\* A quiet run has removed the error log that was there, empty, before it.
C19_Witness ==
    \E h \in Hooks :
        /\ EndedQuietly(h)
        /\ errLog0 = File(<<>>)
        /\ ~errLog.exists

---------------------------------------------------------------------------
(* The installer: install.py.                                              *)

Command(c) == Dict([type |-> T("command"), command |-> T(c)])
HookEntry(c) == Dict([hooks |-> List(<<Command(c)>>)])

HOOKS_CONFIG ==
    Dict([Stop |-> List(<<HookEntry("python3 .claude/hooks/stop-log.py")>>),
          SubagentStop |->
              List(<<HookEntry("python3 .claude/hooks/subagent-stop-log.py")>>)])

\* str.lower() on the characters of an answer.
Lower(c) == IF c = "Y" THEN "y" ELSE IF c = "N" THEN "n" ELSE c

\* prompt(question, default): the stripped line, or the default.
PromptValue(line, default) == IF Strip(line) # <<>> THEN Strip(line) ELSE default

\* prompt_yn(question): the stripped, lowered answer (default "n") starts with "y".
SaysYes(line) ==
    LET a == [i \in DOMAIN Strip(line) |-> Lower(Strip(line)[i])]
    IN  a # <<>> /\ a[1] = "y"

\* The installer ends.
InstallerEnds(status) ==
    /\ ipc' = "exit"
    /\ iexit' = status

\* main, lines 54-63: the check for .git and the prompt for the time zone;
\* input() raises EOFError at the end of stdin.
Preflight ==
    /\ ipc = "preflight"
    /\ IF ~gitDir \/ answers = <<>>
       THEN InstallerEnds(1) /\ UNCHANGED <<answers, tz_value>>
       ELSE /\ tz_value' = PromptValue(Head(answers), <<"America/New_York">>)
            /\ answers' = Tail(answers)
            /\ ipc' = "existing"
            /\ iexit' = iexit
    /\ UNCHANGED <<gitDir, installed, settings, settings0>>
    /\ UNCHANGED <<converterVars, hookVars>>

\* main, lines 65-72: the prompt before an installation is overwritten.
CheckExisting ==
    /\ ipc = "existing"
    /\ IF ~installed THEN ipc' = "copy" /\ UNCHANGED <<iexit, answers>>
       ELSE IF answers = <<>> THEN InstallerEnds(1) /\ answers' = answers
       ELSE /\ answers' = Tail(answers)
            /\ IF SaysYes(Head(answers)) THEN ipc' = "copy" /\ iexit' = iexit
               ELSE InstallerEnds(0)
    /\ UNCHANGED <<gitDir, installed, tz_value, settings, settings0>>
    /\ UNCHANGED <<converterVars, hookVars>>

\* main, lines 74-90: the scripts are copied with the time zone filled in.
CopyScripts ==
    /\ ipc = "copy"
    /\ installed' = TRUE
    /\ ipc' = "merge"
    /\ UNCHANGED <<iexit, gitDir, answers, tz_value, settings, settings0>>
    /\ UNCHANGED <<converterVars, hookVars>>

\* json.load(f) of the settings file, {} when the file is not there or
\* json.JSONDecodeError is raised.
LoadSettings(file) ==
    IF ~file.exists \/ file.content.kind \in {"blank", "bad"} THEN Dict(<<>>)
    ELSE file.content.value

\* dict.update
Update(d, e) == [k \in DOMAIN d \cup DOMAIN e |-> IF k \in DOMAIN e THEN e[k] ELSE d[k]]

\* d[key] = value
SetItem(d, key, value) == [k \in DOMAIN d \cup {key} |-> IF k = key THEN value ELSE d[k]]

\* Lines 102-104.
MergedSettings(loaded) ==
    LET existing_hooks == Get(loaded, "hooks", Dict(<<>>))
    IN  Dict(SetItem(loaded.d, "hooks", Dict(Update(existing_hooks.d, HOOKS_CONFIG.d))))

\* The merge raises: UnicodeDecodeError or RecursionError from json.load,
\* AttributeError from settings.get or existing_hooks.update on a value that
\* is no dict.
MergeRaises(file) ==
    \/ file.exists /\ file.content.kind \in {"undecodable", "deep"}
    \/ ~IsDict(LoadSettings(file))
    \/ ~IsDict(Get(LoadSettings(file), "hooks", Dict(<<>>)))

\* main, lines 92-110: the settings file is read, merged and written.
MergeSettings ==
    /\ ipc = "merge"
    /\ IF MergeRaises(settings)
       THEN InstallerEnds(1) /\ settings' = settings
       ELSE /\ settings' = SettingsFile(JsonLine(MergedSettings(LoadSettings(settings))))
            /\ InstallerEnds(0)
    /\ UNCHANGED <<gitDir, installed, answers, tz_value, settings0>>
    /\ UNCHANGED <<converterVars, hookVars>>

InstallNext ==
    \/ Preflight
    \/ CheckExisting
    \/ CopyScripts
    \/ MergeSettings

\* Settings files a project may have.
Permissions == Dict([allow |-> List(<<T("Read"), T("Glob")>>)])
PlainSettings == Dict([permissions |-> Permissions, customKey |-> Bool(TRUE)])
OtherHookSettings ==
    Dict([hooks |-> Dict([PreToolUse |-> List(<<HookEntry("lint")>>)]), k |-> Num(1)])
StopHookSettings ==
    Dict([hooks |-> Dict([Stop |-> List(<<HookEntry("notify-send done")>>)]), k |-> Num(1)])
SubagentHookSettings ==
    Dict([hooks |-> Dict([SubagentStop |-> List(<<HookEntry("tally")>>),
                          PreToolUse |-> List(<<HookEntry("lint")>>)])])
InstalledSettings == MergedSettings(PlainSettings)

SettingsFiles ==
    {SettingsAbsent} \cup
    {SettingsFile(c) :
        c \in {BlankLine, BadLine, UndecodableLine, DeepLine,
               JsonLine(Dict(<<>>)), JsonLine(PlainSettings), JsonLine(OtherHookSettings),
               JsonLine(StopHookSettings), JsonLine(SubagentHookSettings),
               JsonLine(InstalledSettings), JsonLine(List(<<Num(1)>>)),
               JsonLine(Dict([hooks |-> Null])), JsonLine(Dict([hooks |-> List(<<>>)]))}}

\* What the user types.
Stdins ==
    {<<>>, << <<"U", "T", "C">> >>, << <<>> >>, << <<"U", "T", "C">>, <<"y">> >>,
     << <<"U", "T", "C">>, <<" ", "Y", "e", "s">> >>, << <<"U", "T", "C">>, <<"n">> >>,
     << <<"U", "T", "C">>, <<>> >>}

InitInstall ==
    /\ ConverterOff
    /\ HooksOff
    /\ ipc = "preflight"
    /\ iexit = -1
    /\ gitDir \in BOOLEAN
    /\ installed \in BOOLEAN
    /\ answers \in Stdins
    /\ tz_value = <<>>
    /\ settings \in SettingsFiles
    /\ settings0 = settings

SpecInstall == InitInstall /\ [][InstallNext]_vars

---------------------------------------------------------------------------
(* C20: running the installer in a project that already has a              *)
(* .claude/settings.json merges the logger hooks without clobbering: every *)
(* top-level key that was there keeps its value, every entry that was      *)
(* there under "hooks" (for any event, the entries registered for Stop and *)
(* SubagentStop among them) is still there afterwards, and the Stop and    *)
(* SubagentStop logger commands are there.                                 *)

\* The settings file holds an object whose "hooks", if any, is an object of lists.
WellFormedSettings(file) ==
    /\ file.exists
    /\ file.content.kind = "json"
    /\ IsDict(file.content.value)
    /\ IsDict(Get(file.content.value, "hooks", Dict(<<>>)))
    /\ \A e \in DOMAIN Get(file.content.value, "hooks", Dict(<<>>)).d :
          IsList(Get(file.content.value, "hooks", Dict(<<>>)).d[e])

HooksOf(file) == Get(file.content.value, "hooks", Dict(<<>>)).d

\* The entries registered for an event.
EntriesFor(file, event) ==
    IF event \in DOMAIN HooksOf(file) THEN Range(HooksOf(file)[event].xs) ELSE {}

KeysKept(old, new) ==
    \A k \in DOMAIN old.content.value.d \ {"hooks"} :
        /\ k \in DOMAIN new.content.value.d
        /\ new.content.value.d[k] = old.content.value.d[k]

EntriesKept(old, new) ==
    \A event \in DOMAIN HooksOf(old) : EntriesFor(old, event) \subseteq EntriesFor(new, event)

LoggerPresent(new) ==
    \A event \in DOMAIN HOOKS_CONFIG.d :
        Range(HOOKS_CONFIG.d[event].xs) \subseteq EntriesFor(new, event)

\* The step that writes the settings file.
WritesSettings == ipc = "merge" /\ ipc' = "exit" /\ iexit' = 0

C20_MergeWithoutClobbering ==
    [][(WritesSettings /\ WellFormedSettings(settings)) =>
          /\ WellFormedSettings(settings')
          /\ KeysKept(settings, settings')
          /\ EntriesKept(settings, settings')
          /\ LoggerPresent(settings')]_vars

\* The same without the entries that were registered for Stop and SubagentStop.
OtherEntriesKept(old, new) ==
    \A event \in DOMAIN HooksOf(old) \ DOMAIN HOOKS_CONFIG.d :
        EntriesFor(old, event) \subseteq EntriesFor(new, event)

C20_OtherEventsKept ==
    [][(WritesSettings /\ WellFormedSettings(settings)) =>
          /\ WellFormedSettings(settings')
          /\ KeysKept(settings, settings')
          /\ OtherEntriesKept(settings, settings')
          /\ LoggerPresent(settings')]_vars

---------------------------------------------------------------------------
(* C21: for every tool call other than Edit whose cleaned result has more  *)
(* than 4 lines, the output has no header line of its own for that call,   *)
(* the text inside <summary>...</summary> is exactly the HTML-escaped      *)
(* header of the call, and the <pre><code> body is exactly the             *)
(* HTML-escaped cleaned result; for results that are errors and for        *)
(* results that are not.                                                   *)

\* A call other than Edit whose cleaned paired result has more than 4 lines.
HasLongResult(c) ==
    /\ ~IsEditCall(c)
    /\ Len(SplitNL(CleanedResult(c))) > INLINE_RESULT_MAX_LINES

\* The text between <summary> and </summary> on a line, <<"?">> when the line
\* is no summary line.
SummaryTextOf(l) ==
    IF Len(l) >= 2 /\ l[1] = "<summary>" /\ l[Len(l)] = "</summary>"
    THEN SubSeq(l, 2, Len(l) - 1)
    ELSE <<"?">>

\* The text between <pre><code> and </code></pre> on a line.
PreTextOf(l) ==
    IF Len(l) >= 2 /\ l[1] = "<pre><code>" /\ l[Len(l)] = "</code></pre>"
    THEN SubSeq(l, 2, Len(l) - 1)
    ELSE <<"?">>

\* The collapsed block of a call, its summary text being s.
IsCollapsedBlock(c, s) ==
    /\ Len(SegmentOf(c)) = 6
    /\ \A j \in DOMAIN SegmentOf(c) : SegmentOf(c)[j] # HeaderOf(BlockOf(c))
    /\ SegmentOf(c)[1] = <<"<details>">>
    /\ SummaryTextOf(SegmentOf(c)[2]) = s
    /\ PreTextOf(SegmentOf(c)[3]) = _escape_html(CleanedResult(c))
    /\ SegmentOf(c)[4] = <<"</details>">>
    /\ SegmentOf(c)[5] = <<"<br>">>
    /\ SegmentOf(c)[6] = <<>>

C21_SummaryIsEscapedHeader ==
    \A k \in DOMAIN calls :
        HasLongResult(calls[k]) =>
            IsCollapsedBlock(calls[k], _escape_html(HeaderOf(BlockOf(calls[k]))))

\* The summary of a result that is an error begins with "<b>Error:</b> ".
C21_SummaryIsHeaderAfterErrorMark ==
    \A k \in DOMAIN calls :
        HasLongResult(calls[k]) =>
            IsCollapsedBlock(calls[k],
                (IF Truthy(PairedFlag(calls[k])) THEN <<"<b>Error:</b> ">> ELSE <<>>)
                    \o _escape_html(HeaderOf(BlockOf(calls[k]))))

\* Two long results are rendered, one an error and one not, the header and
\* the results holding characters that are escaped.
C21_Witness ==
    \E j, k \in DOMAIN calls :
        /\ HasLongResult(calls[j]) /\ Truthy(PairedFlag(calls[j]))
        /\ HasLongResult(calls[k]) /\ ~Truthy(PairedFlag(calls[k]))
        /\ _escape_html(HeaderOf(BlockOf(calls[j]))) # HeaderOf(BlockOf(calls[j]))
        /\ _escape_html(CleanedResult(calls[j])) # CleanedResult(calls[j])

---------------------------------------------------------------------------
(* C22: for an Edit call, the fenced diff block holds every line of the    *)
(* unified diff (2 lines of context) of old_string against new_string but  *)
(* the two file-header lines: only the '---' and '+++' header lines are    *)
(* stripped, and every hunk marker, context line, removed line and added   *)
(* line is kept, in order, whatever the text of the edited lines (removed  *)
(* lines that begin with '--' and added lines that begin with '++' among   *)
(* them).                                                                  *)

\* The unified diff of an Edit call's old_string against its new_string.
DiffOf(c) ==
    LET inp == Get(BlockOf(c), "input", Dict(<<>>))
    IN  unified_diff(SplitLines(Get(inp, "old_string", E).s),
                     SplitLines(Get(inp, "new_string", E).s))

\* The lines of a call's segment between the fences of its diff block.
FencedLines(c) ==
    LET seg == SegmentOf(c)
    IN  IF OpeningFence(seg) > 0 /\ ClosingFence(seg) > 0
        THEN SubSeq(seg, OpeningFence(seg) + 1, ClosingFence(seg) - 1)
        ELSE <<>>

\* The diff without its first two lines, which are the file headers.
WithoutFileHeaders(diff) == SubSeq(diff, 3, Len(diff))

C22_DiffKeptButFileHeaders ==
    \A k \in DOMAIN calls :
        IsEditCall(calls[k]) =>
            FencedLines(calls[k]) = WithoutFileHeaders(DiffOf(calls[k]))

\* The same for the Edit calls of which no removed line begins with '--' and
\* no added line begins with '++'.
C22_DiffKeptWhenNoLineLooksLikeHeader ==
    \A k \in DOMAIN calls :
        (/\ IsEditCall(calls[k])
         /\ \A i \in 3..Len(DiffOf(calls[k])) : ~IsFileHeaderLine(DiffOf(calls[k])[i]))
            => FencedLines(calls[k]) = WithoutFileHeaders(DiffOf(calls[k]))

---------------------------------------------------------------------------
(* C23: when the transcript yields zero parsed records, the converter      *)
(* creates the output file, empty, only if it does not exist already, and  *)
(* leaves an output file that exists byte for byte as it is; so any number *)
(* of runs on an unchanged empty input leave the output file in the state  *)
(* it had after the first run.                                             *)

\* parse_jsonl returns the empty list for the transcript.
YieldsNoRecords ==
    /\ transcript.exists
    /\ \A i \in DOMAIN transcript.lines : transcript.lines[i].kind = "blank"
                                          \/ transcript.lines[i].kind = "bad"

\* The output file after the first run on such a transcript.
AfterFirstRun == IF outFile0.exists THEN outFile0 ELSE File(<<>>)

\* A run that ends on "if not records" writes the empty file where there was
\* none and nothing where there was one; no step of a later run changes the
\* file.
C23_EmptyInputStep ==
    [][YieldsNoRecords =>
          /\ (outFile.exists => outFile' = outFile)
          /\ (outFile' # outFile =>
                 (outFile' = File(<<>>) /\ pc' = "exit" /\ exitCode' = 0 /\ runs = 1))
          /\ ((pc = "parse" /\ pc' = "exit") => outFile'.exists)]_vars

\* After the first run and in every later run the file is as the first run left it.
C23_EmptyInputIdempotent ==
    (YieldsNoRecords /\ (runs > 1 \/ pc = "exit")) => outFile = AfterFirstRun

C23_Witness ==
    /\ YieldsNoRecords
    /\ Len(transcript.lines) > 0
    /\ runs = MaxRuns
    /\ pc = "exit"
    /\ exitCode = 0
    /\ ~outFile0.exists
    /\ outFile = File(<<>>)

C23_WitnessKept ==
    /\ YieldsNoRecords
    /\ runs = MaxRuns
    /\ pc = "exit"
    /\ exitCode = 0
    /\ outFile0 = File(<<"old", "\n">>)
    /\ outFile = outFile0

---------------------------------------------------------------------------
(* C24: if at least one line of the input parses but every parsed record   *)
(* is skip-listed, meta-flagged, or otherwise contributes no Item, the     *)
(* output file is empty: no header block and no body is written.           *)

\* At least one line has parsed and the grouper has returned no Item.
NoItemFromRecords == Rendered /\ items = <<>>

\* C24 as stated.
C24_NoItemsEmptyFile == NoItemFromRecords => outFile = File(<<>>)

\* What the code does: "if not records" looks at the parsed records, so a run
\* that parses a record and finds no Item writes the header block and an empty
\* body, over what the file held; a run that a record makes fail leaves the
\* output path as it was.
C24_NoItemsHeaderOnly ==
    /\ NoItemFromRecords =>
          /\ lines = <<>>
          /\ outFile = File(render_header(args))
          /\ outFile # File(<<>>)
    /\ (pc = "exit" /\ exitCode = 1) => outFile = outFile0

C24_Witness ==
    /\ NoItemFromRecords
    /\ Len(records) = MaxLines
    /\ \E i \in DOMAIN records : ~should_skip(records[i])
    /\ \E i \in DOMAIN records : should_skip(records[i])
    /\ outFile0 = File(<<"old", "\n">>)
    /\ outFile = File(render_header(args))

---------------------------------------------------------------------------
(* C25: the hook's polling of the transcript size always terminates: for   *)
(* every behaviour of a concurrent writer (one that grows the transcript   *)
(* between every two polls, or a file whose size cannot be read), the loop *)
(* makes at least 2 and at most 10 size observations, and the hook then    *)
(* goes on to invoke the converter and exits.                              *)

\* The hook has left the loop of polls.
PastPolls(h) ==
    \/ hpc[h] \in {"stamp", "mkdir", "open", "run", "cleanup"}
    \/ HookEnded(h) /\ polls[h] # <<>>

\* The loop makes at least 2 and at most MaxPolls observations.
PollsBounded(h) ==
    /\ Len(polls[h]) <= MaxPolls
    /\ PastPolls(h) => Len(polls[h]) >= 2

\* C25 as stated, as far as a state shows it: a hook that has ended after
\* its polls has invoked the converter.
C25_PollsThenConverter ==
    \A h \in Hooks :
        /\ PollsBounded(h)
        /\ (HookEnded(h) /\ polls[h] # <<>>) => ConverterInvoked(h)

\* The loop makes between 2 and MaxPolls observations; a hook in the loop
\* leaves it and ends with status 0; and the hook invokes the converter once
\* it has made the log directory, sliced the ids and opened the error log,
\* unless the subprocess cannot be spawned.
C25_PollingTerminates ==
    /\ [](\A h \in Hooks : PollsBounded(h))
    /\ \A h \in Hooks : (hpc[h] = "poll") ~> (HookEnded(h) /\ hexit[h] = 0)
    /\ [][\A h \in Hooks :
            (/\ hpc[h] = "run"
             /\ hpc'[h] # "run"
             /\ ~SpawnRaises(h, hook_stdin[h], stamp[h].local_ts))
                => (wrote'[h] # "none" /\ hpc'[h] = "cleanup")]_vars

\* The writer grew the transcript between every two polls, the hook left the
\* loop after MaxPolls polls, invoked the converter and ended.
C25_Witness ==
    \E h \in Hooks :
        /\ HookEnded(h)
        /\ hexit[h] = 0
        /\ Len(polls[h]) = MaxPolls
        /\ ~StableSeen(h)
        /\ ConverterInvoked(h)

\* The size could not be read: the transcript was removed during the polls.
C25_WitnessUnreadable ==
    \E h \in Hooks :
        /\ HookEnded(h)
        /\ ~tfile[h].exists
        /\ Len(polls[h]) >= 3
        /\ polls[h][Len(polls[h])] = 0
        /\ polls[h][1] > 0

---------------------------------------------------------------------------
(* C26: for every tool name and every tool input (file paths, patterns,    *)
(* URLs, queries, descriptions and tool names with newline characters in   *)
(* them included), _tool_header returns a header of exactly one line; a    *)
(* tool name the table does not know, or a known name with an input that   *)
(* is no mapping, yields the bare bullet and the tool name.                *)

\* The names _tool_header has a format for.
KnownTools ==
    {T("Bash"), T("Read"), T("Write"), T("Edit"), T("Glob"), T("Grep"), T("WebFetch"),
     T("WebSearch"), T("Task")}

NameOf(c) == Get(BlockOf(c), "name", T("unknown"))
InputOf(c) == Get(BlockOf(c), "input", Dict(<<>>))

\* A text of one line.
OneLine(text) == "\n" \notin Range(text)

\* The call is rendered by the fallback.
FallsBack(c) == NameOf(c) \notin KnownTools \/ ~IsDict(InputOf(c))

\* The first line of every rendered call is its header; the fallback header
\* is the bullet and the name.
C26_FallbackHeader ==
    \A k \in DOMAIN calls :
        /\ SegmentOf(calls[k])[1] = HeaderOf(BlockOf(calls[k]))
        /\ FallsBack(calls[k]) =>
              SegmentOf(calls[k])[1] = <<"[bullet] ">> \o PyStr(NameOf(calls[k]))

C26_HeaderIsOneLine ==
    /\ C26_FallbackHeader
    /\ \A k \in DOMAIN calls : OneLine(SegmentOf(calls[k])[1])

\* Only the command of the shell tool is cut at its first newline.
C26_BashHeaderIsOneLine ==
    \A k \in DOMAIN calls :
        NameOf(calls[k]) = T("Bash") => OneLine(SegmentOf(calls[k])[1])

---------------------------------------------------------------------------
(* C27: in tool headers the displayed field of the shell tool (first       *)
(* command line), the web-fetch tool (URL), the web-search tool (query)    *)
(* and the sub-task tool (description) is truncated to a fixed character   *)
(* budget: a value within the budget is shown as it is, a value over the   *)
(* budget as its first budget characters followed by '...', so that the    *)
(* displayed field is never longer than budget + 3 characters.             *)

\* The tools whose displayed field the claim speaks of, and that field.
TruncatingTools == {T("Bash"), T("WebFetch"), T("WebSearch"), T("Task")}

FieldOf(c) ==
    CASE NameOf(c) = T("Bash") -> SplitNL(Get(InputOf(c), "command", E).s)[1]
      [] NameOf(c) = T("WebFetch") -> Get(InputOf(c), "url", E).s
      [] NameOf(c) = T("WebSearch") -> Get(InputOf(c), "query", E).s
      [] NameOf(c) = T("Task") -> Get(InputOf(c), "description", E).s

\* The budgets in the code; it has none for the web-search tool, for which
\* any budget up to the largest of the others will do.
BudgetsOf(name) ==
    CASE name = T("Bash") -> {120}
      [] name = T("WebFetch") -> {100}
      [] name = T("WebSearch") -> 1..120
      [] name = T("Task") -> {100}

\* The field as the header of the call shows it: what stands between the
\* opening of the header ("Task(agent: " for a sub-task with an agent type)
\* and its closing.
DisplayedField(c) ==
    LET header == SegmentOf(c)[1]
        agent == Get(InputOf(c), "subagent_type", E)
        skip == IF NameOf(c) = T("Task") /\ Truthy(agent) THEN 1 + Len(PyStr(agent)) + 1
                ELSE 1
    IN  SubSeq(header, skip + 1, Len(header) - 1)

\* A call of one of the four tools, its input a mapping.
IsTruncatingCall(c) == NameOf(c) \in TruncatingTools /\ IsDict(InputOf(c))

C27_FieldsTruncated ==
    \A k \in DOMAIN calls :
        IsTruncatingCall(calls[k]) =>
            \E budget \in BudgetsOf(NameOf(calls[k])) :
                /\ DisplayedField(calls[k]) = _truncate(FieldOf(calls[k]), budget)
                /\ Len(DisplayedField(calls[k])) <= budget + 3

\* The same without the web-search tool, whose query is shown in full.
C27_FieldsTruncatedButQuery ==
    \A k \in DOMAIN calls :
        IsTruncatingCall(calls[k]) =>
            IF NameOf(calls[k]) = T("WebSearch")
            THEN DisplayedField(calls[k]) = FieldOf(calls[k])
            ELSE \E budget \in BudgetsOf(NameOf(calls[k])) :
                    DisplayedField(calls[k]) = _truncate(FieldOf(calls[k]), budget)

---------------------------------------------------------------------------
(* C28: when the Stop hook and the SubagentStop hook run concurrently in   *)
(* the same project directory and a converter subprocess writes an error   *)
(* to stderr, that error text is in .claude/logs/.converter-errors.log     *)
(* once both hooks have finished: no interleaving of one hook's open for   *)
(* append, subprocess write and remove-if-empty with the other hook's      *)
(* steps deletes the log file or loses the error.                          *)

\* The hooks whose converter wrote to stderr.
WroteErrors == {h \in Hooks : wrote[h] = "errors"}

\* Every hook that was started has ended.
AllEnded == \A h \in Hooks : hpc[h] \in {"off", "exit"}

\* Every converter's error text is two tokens: the message and its newline.
C28_ErrorsKept ==
    (AllEnded /\ WroteErrors # {}) =>
        /\ errLog.exists
        /\ Len(errLog.text) = Len(errLog0.text) + 2 * Cardinality(WroteErrors)

\* Both hooks have ended, one converter wrote an error, the log is not there.
C28_ErrorLost ==
    /\ AllEnded
    /\ WroteErrors # {}
    /\ ~errLog.exists

---------------------------------------------------------------------------
(* C29: the grouper neither drops nor duplicates assistant content: for    *)
(* every record stream, each content block of each assistant record that   *)
(* is not skipped and whose message is an object with a list content       *)
(* occurs in exactly one Assistant Item, exactly once, and the blocks of   *)
(* one record keep their order inside that Item, whatever user records,    *)
(* skipped records or other assistant messages lie between; the number of  *)
(* blocks in all Assistant Items is the number of blocks in those records. *)

\* The blocks of the Assistant Items, and of the records the grouper takes up.
ItemBlocks == FlatMap(AssistantItemsOf(items), LAMBDA item : item.blocks)
RecordBlocks ==
    FlatMap(records, LAMBDA r : IF IsGrouped(r) THEN ContentOf(r).xs ELSE <<>>)

\* How often a block occurs in a sequence of blocks.
Occurrences(blocks, b) == Cardinality({i \in DOMAIN blocks : blocks[i] = b})

\* The blocks of a record lie in one Assistant Item, in their order.
KeptInOrder(r) ==
    \E k \in DOMAIN items :
        /\ items[k].kind = "assistant"
        /\ \E off \in 0..(Len(items[k].blocks) - Len(ContentOf(r).xs)) :
              SubSeq(items[k].blocks, off + 1, off + Len(ContentOf(r).xs)) = ContentOf(r).xs

BlocksKept ==
    /\ Len(ItemBlocks) = Len(RecordBlocks)
    /\ \A b \in Range(RecordBlocks) \cup Range(ItemBlocks) :
          Occurrences(ItemBlocks, b) = Occurrences(RecordBlocks, b)
    /\ \A i \in DOMAIN records : IsGrouped(records[i]) => KeptInOrder(records[i])

C29_NoBlockDroppedOrDuplicated == GrouperReturned => BlocksKept

\* The same for the streams whose message ids are strings.
C29_BlocksKeptWithStringIds == (GrouperReturned /\ StringIds(records)) => BlocksKept

\* A record without id is placed at the address that is the numeric id of an
\* open group: its blocks are there twice, those of the group are gone.
C29_BlocksLost ==
    /\ GrouperReturned
    /\ Len(ItemBlocks) = Len(RecordBlocks)
    /\ \E b \in Range(RecordBlocks) : Occurrences(ItemBlocks, b) = 0

---------------------------------------------------------------------------
(* The Stop hook names its log file (stop-log.py, lines 43-83), run after  *)
(* run on a transcript that a writer appends lines to.                     *)

\* The dates datetime.now() may give, and the time zones the script may hold.
Days == {<<"2026-02-16">>, <<"2026-02-18">>}
Zones == {<<"UTC">>, <<"Mars/Phobos">>}

\* ZoneInfo(TZ) accepts the zone.
ZoneOk(tz) == tz = <<"UTC">>

\* json.loads(line).get("timestamp") is truthy; a line that is no JSON text
\* or whose value is no mapping is passed over.
HasTimestamp(line) ==
    /\ line.kind = "json"
    /\ IsDict(line.value)
    /\ Truthy(Get(line.value, "timestamp", Null))

\* The line at which the scan for the start timestamp stops, 0 without one.
FirstStamped(ls) ==
    LET at == {i \in DOMAIN ls : HasTimestamp(ls[i])}
    IN  IF at = {} THEN 0 ELSE CHOOSE i \in at : \A j \in at : i <= j

\* FirstTimestamp that goes on to the last record with a timestamp.
FirstTimestamp_Last(ls) ==
    LET at == {i \in DOMAIN ls : HasTimestamp(ls[i])}
    IN  IF at = {} THEN Null
        ELSE Get(ls[CHOOSE i \in at : \A j \in at : j <= i].value, "timestamp", Null)

\* start_ts: the timestamp of the first record that has one.
FirstTimestamp(ls) ==
    IF FirstStamped(ls) = 0 THEN Null
    ELSE Get(ls[FirstStamped(ls)].value, "timestamp", Null)

\* The scan raises UnicodeDecodeError, which main does not catch: always when
\* bytes that are no text lie before the line the scan stops at, and, the
\* file being decoded a buffer at a time, possibly when they lie after it.
ScanOutcomes(ls) ==
    LET bad == {i \in DOMAIN ls : ls[i].kind = "undecodable"}
        stop == IF FirstStamped(ls) = 0 THEN Len(ls) ELSE FirstStamped(ls)
    IN  IF bad = {} THEN {FALSE}
        ELSE IF \E i \in bad : i <= stop THEN {TRUE}
        ELSE BOOLEAN

\* date_str, time_part and local_ts on the day today.
StampedAt(start_ts, tz_ok, today) ==
    [Stamped(start_ts, tz_ok) EXCEPT !.date_str = IF @ = <<"today">> THEN today ELSE @]

\* log_file
log_file(st, session_id) ==
    <<".claude/logs/">> \o st.date_str \o <<"-">> \o st.time_part \o <<"-">>
        \o First8(session_id.s) \o <<".md">>

\* One run of the Stop hook up to the naming of the log file, on the
\* transcript as it is; polls records the number of lines the run found.
StopHookNamesLog ==
    /\ hpc["Stop"] \in {"start", "exit"}
    /\ Len(polls["Stop"]) < MaxRuns
    /\ polls' = [polls EXCEPT !["Stop"] = Append(@, Len(transcript.lines))]
    /\ hpc' = [hpc EXCEPT !["Stop"] = "exit"]
    /\ hexit' = [hexit EXCEPT !["Stop"] = 0]
    /\ \E today \in Days, raises \in ScanOutcomes(transcript.lines) :
          IF raises THEN UNCHANGED <<first_ts, stamp>>
          ELSE /\ first_ts' = [first_ts EXCEPT !["Stop"] = FirstTimestamp(transcript.lines)]
               /\ stamp' = [stamp EXCEPT !["Stop"] =
                               StampedAt(FirstTimestamp(transcript.lines), ZoneOk(tz_value),
                                         today)]
    /\ UNCHANGED <<hook_stdin, tfile, prev_size, logsDir, errLog, errLog0, err_f, wrote>>
    /\ UNCHANGED <<converterVars, installVars>>

\* Records with and without a timestamp.
StampedRecord(ts) ==
    Dict([type |-> T("user"), message |-> UserMessage(T("hello")), timestamp |-> ts])
LaterStamp == Str(<<"2026-02-17", "T", "0", "9", ":", "1", "5", ":", "0", "0", "Z">>)

PathLines ==
    {JsonLine(SummaryRecord), JsonLine(StampedRecord(Null)), JsonLine(StampedRecord(GoodStamp)),
     JsonLine(StampedRecord(LaterStamp)), JsonLine(StampedRecord(T("yesterday"))),
     NumberLine, BadLine, UndecodableLine}

\* The writer appends a line to the transcript.
WriterAppendsLine ==
    /\ Len(transcript.lines) < MaxLines
    /\ \E l \in PathLines :
          transcript' = [transcript EXCEPT !.lines = Append(@, l)]
    /\ tfile' = [tfile EXCEPT !["Stop"].size = @ + 1]
    /\ UNCHANGED <<args, outFile, outFile0, outDir, pc, exitCode, records, li, addrs, gi, items,
                   assistant_groups, assistant_order, tool_results_map, ri, lines, calls, runs>>
    /\ UNCHANGED <<hook_stdin, hpc, hexit, prev_size, polls, first_ts, stamp, logsDir, errLog,
                   errLog0, err_f, wrote>>
    /\ UNCHANGED installVars

PathNext == StopHookNamesLog \/ WriterAppendsLine

\* The Stop hook of one session in a project whose scripts hold one time
\* zone; the transcript is there and is empty.
InitPaths ==
    /\ transcript = [exists |-> TRUE, lines |-> <<>>]
    /\ args = ArgsNone
    /\ outFile = Absent
    /\ outFile0 = Absent
    /\ outDir = TRUE
    /\ pc = "off"
    /\ exitCode = -1
    /\ records = <<>>
    /\ li = 0
    /\ addrs = <<>>
    /\ gi = 0
    /\ items = <<>>
    /\ assistant_groups = <<>>
    /\ assistant_order = <<>>
    /\ tool_results_map = <<>>
    /\ ri = 0
    /\ lines = <<>>
    /\ calls = <<>>
    /\ runs = 0
    /\ hook_stdin = [h \in Hooks |->
                        IF h = "Stop" THEN HookInput(PathKey(h), LongSessionId) ELSE BlankLine]
    /\ hpc = [h \in Hooks |-> IF h = "Stop" THEN "start" ELSE "off"]
    /\ hexit = [h \in Hooks |-> -1]
    /\ tfile = [h \in Hooks |-> [exists |-> h = "Stop", size |-> 0]]
    /\ prev_size = [h \in Hooks |-> -1]
    /\ polls = [h \in Hooks |-> <<>>]
    /\ first_ts = [h \in Hooks |-> Null]
    /\ stamp = [h \in Hooks |-> Null]
    /\ logsDir = TRUE
    /\ errLog = Absent
    /\ errLog0 = Absent
    /\ err_f = [h \in Hooks |-> "closed"]
    /\ wrote = [h \in Hooks |-> "none"]
    /\ ipc = "off"
    /\ iexit = -1
    /\ gitDir = TRUE
    /\ installed = TRUE
    /\ answers = <<>>
    /\ tz_value \in Zones
    /\ settings = SettingsAbsent
    /\ settings0 = SettingsAbsent

SpecPaths == InitPaths /\ [][PathNext]_vars

---------------------------------------------------------------------------
(* C30: for a transcript that only grows by appending and that holds at    *)
(* least one record with a well-formed timestamp, every invocation of the  *)
(* Stop hook for the same session id (under a fixed time zone) computes    *)
(* the same log file path, so that successive invocations overwrite one    *)
(* log file and create no further files; the path depends only on the      *)
(* first record carrying a timestamp and the first 8 characters of the     *)
(* session id, not on records without a timestamp that precede it.         *)

\* The hook has named a log file, and the path it named last.
NamedLog == stamp["Stop"] # Null
LastPath == log_file(stamp["Stop"], SessionIdOf(hook_stdin["Stop"]))

\* The path a run on the lines ls names on the day today.
PathOn(ls, today) ==
    log_file(StampedAt(FirstTimestamp(ls), ZoneOk(tz_value), today),
             SessionIdOf(hook_stdin["Stop"]))

\* A record of the lines has a well-formed timestamp.
HasWellFormedTimestamp(ls) ==
    \E i \in DOMAIN ls :
        /\ HasTimestamp(ls[i])
        /\ IsStr(Get(ls[i].value, "timestamp", Null))
        /\ WellFormedStamp(Get(ls[i].value, "timestamp", Null).s)

\* The lines the last run found.
LinesThen == SubSeq(transcript.lines, 1, polls["Stop"][Len(polls["Stop"])])

\* C30 as stated: once a run has named the log file of a transcript that
\* holds a well-formed timestamp, every run on the transcript as it is now
\* names the same path, on whatever day.
C30_SamePathEveryInvocation ==
    (/\ NamedLog
     /\ ScanOutcomes(LinesThen) # {TRUE}
     /\ HasWellFormedTimestamp(LinesThen))
        => \A today \in Days : PathOn(transcript.lines, today) = LastPath

\* The first timestamp the last run found is well-formed and the time zone
\* is one ZoneInfo accepts.
FirstTimestampConverts ==
    /\ IsStr(first_ts["Stop"])
    /\ WellFormedStamp(first_ts["Stop"].s)
    /\ ZoneOk(tz_value)

\* When the first truthy timestamp of the transcript is well-formed and the
\* time zone valid, every run that names the log file names the same path:
\* the local date and time of that timestamp and the first 8 characters of
\* the session id, whatever lines precede or follow the record.
C30_PathFixedByFirstTimestamp ==
    (NamedLog /\ FirstTimestampConverts) =>
        /\ first_ts["Stop"] = FirstTimestamp(transcript.lines)
        /\ \A today \in Days : PathOn(transcript.lines, today) = LastPath
        /\ LastPath = <<".claude/logs/", first_ts["Stop"].s[1], "-">>
                         \o LocalHHMM(first_ts["Stop"].s) \o <<"-">>
                         \o First8(LongSessionId.s) \o <<".md">>

\* Three runs on a transcript that grew between them, whose first line has
\* no timestamp and whose last has another timestamp than the first found.
C30_Witness ==
    /\ NamedLog
    /\ FirstTimestampConverts
    /\ Len(polls["Stop"]) = MaxRuns
    /\ polls["Stop"][1] = 2
    /\ polls["Stop"][MaxRuns] = MaxLines
    /\ ~HasTimestamp(transcript.lines[1])
    /\ first_ts["Stop"] = GoodStamp
    /\ HasTimestamp(transcript.lines[MaxLines])
    /\ Get(transcript.lines[MaxLines].value, "timestamp", Null) = LaterStamp

====
